---- MODULE Spec2Model ----
(***************************************************************************)
(* The Aequitas ledger (core/src/blockchain.rs), the validation code it    *)
(* calls (block.rs, transaction.rs, merkle.rs, difficulty.rs) as a state   *)
(* machine.                                                                *)
(*                                                                         *)
(* Representation.                                                         *)
(*  - Keccak-256 is collision free and otherwise opaque.  The digest of a   *)
(*    transaction or of a Merkle pair is the record [kind, preimage], so   *)
(*    equal inputs have equal digests and different inputs different ones. *)
(*    Header digests would nest the whole chain that way, so they are      *)
(*    interned instead (see HeaderHash): a header stored in the blocks map *)
(*    has the digest it is stored under, any other header a digest that no *)
(*    stored header has.  The bytes that the proof-of-work test reads     *)
(*    are a fixed function of the header (see hash_bytes).                 *)
(*  - Amounts are u64 and are counted in units of 500_000_000 base units   *)
(*    (GENESIS_REWARD / 100), the largest unit in which the 1% shares of   *)
(*    the genesis reward are whole.  A u64 is held as its two's-complement *)
(*    signed reading, so the wrapping sum of the code is integer addition  *)
(*    and the unsigned order is ULeq.                                      *)
(*  - Hashes read as numbers and proof-of-work targets are big-endian     *)
(*    byte strings: sequences of numbers 0..255.                           *)
(*  - An Ed25519 signature is named by the key that made it over the       *)
(*    transaction's signing message; it verifies iff that key is the       *)
(*    embedded public key.                                                 *)
(***************************************************************************)
EXTENDS Integers, Sequences, FiniteSets, TLC

VARIABLES
    blocks,              \* Blockchain.blocks: block hash -> Block
    height_index,        \* Blockchain.height_index: height -> block hash
    tip,                 \* Blockchain.tip
    height,              \* Blockchain.height
    utxos,               \* Blockchain.utxos: UtxoId -> TxOutput
    block_times,         \* Blockchain.block_times: Seq of <<height, timestamp>>
    current_difficulty,  \* Blockchain.current_difficulty
    lastResult,          \* what the last add_block call returned
    lastCall,            \* the last call of a function or method:
                         \* [fn, args, ret, done]
    mempool,             \* the node's Mempool
    peer_manager,        \* a PeerManager
    clock,               \* the monotonic clock (Instant::now), in seconds
    mining_worker,       \* a MiningWorker, its CPU worker threads, its channels
                         \* and the thread that calls its methods
    node,                \* the tasks of the node that share the ledger: their
                         \* guards on its RwLock, where they stand, the blocks
                         \* they carry, and the broadcast channel
    keystore             \* the Keystore of a Wallet: data.keys and unlocked

ledger == <<blocks, height_index, tip, height, utxos, block_times, current_difficulty>>
\* the parts of a node outside the ledger
components == <<mempool, peer_manager, clock, mining_worker, node, keystore>>
vars == <<blocks, height_index, tip, height, utxos, block_times, current_difficulty,
          lastResult, lastCall, mempool, peer_manager, clock, mining_worker, node,
          keystore>>

----------------------------------------------------------------------------
(* Bounds of the model *)

\* add_block is called while the chain is below this height (genesis start)
MaxHeight == 2
\* number of blocks added on top of the booted chain of SpecLate
LateBlocks == 2

----------------------------------------------------------------------------
(* Program constants *)

GENESIS_REWARD == 100            \* 50_000_000_000 base units, in units of 500_000_000
INITIAL_DIFFICULTY == 1000000
HALVING_INTERVAL == 2100000
TREASURY_PERCENTAGE == 1
SOLIDARITY_PERCENTAGE == 1
TARGET_BLOCK_TIME == 30
DIFFICULTY_AVERAGING_WINDOW == 60
MIN_DIFFICULTY == 1000
MAX_MEMO == 256
\* the look-back of find_smallest_beneficiary and the last height at which
\* add_block tolerates a wrong solidarity recipient
SOLIDARITY_LOOKBACK == 100
SOLIDARITY_GRACE_HEIGHT == 100

\* Address::genesis_address(), the treasury, and two miners with their keys
GenesisAddress == "genesis"
Miners == {"a1", "a2"}
Addresses == {GenesisAddress} \cup Miners

----------------------------------------------------------------------------
(* u64 helpers *)

\* unsigned a <= b on the signed reading of two u64 values
ULeq(a, b) ==
    IF (a < 0) = (b < 0) THEN a <= b ELSE b < 0

Min(a, b) == IF a <= b THEN a ELSE b
Max(a, b) == IF a >= b THEN a ELSE b

\* Byte strings are sequences of numbers 0..255, most significant first.
\* u64::MAX.to_be_bytes()
U64_MAX == [i \in 1..8 |-> 255]

\* floor(n / d) for a big-endian byte string n and 0 < d < 2^23: school division
RECURSIVE DivDigits(_, _, _, _)
DivDigits(n, d, i, rem) ==
    IF i > Len(n) THEN <<>>
    ELSE LET cur == rem * 256 + n[i]
         IN  <<cur \div d>> \o DivDigits(n, d, i + 1, cur % d)

\* n + 1 for a big-endian byte string that is not all 0xFF
RECURSIVE IncDigits(_, _)
IncDigits(n, i) ==
    IF i = 0 THEN n
    ELSE IF n[i] < 255 THEN [n EXCEPT ![i] = n[i] + 1]
         ELSE IncDigits([n EXCEPT ![i] = 0], i - 1)

\* a <= b for two big-endian byte strings of the same length
RECURSIVE DigitsLeq(_, _, _)
DigitsLeq(a, b, i) ==
    IF i > Len(a) THEN TRUE
    ELSE IF a[i] # b[i] THEN a[i] < b[i]
         ELSE DigitsLeq(a, b, i + 1)

----------------------------------------------------------------------------
(* Hashes *)

ZeroHash == [kind |-> "zero", preimage |-> 0]

\* Transaction::hash: Keccak-256 of the bincode serialization of all fields
TxHash(tx) == [kind |-> "tx", preimage |-> tx]

\* merkle::hash_pair
hash_pair(a, b) == [kind |-> "pair", preimage |-> <<a, b>>]

\* one level of the tree: chunks(2), an odd trailing node paired with itself
RECURSIVE MerkleLevel(_)
MerkleLevel(hashes) ==
    IF Len(hashes) = 0 THEN <<>>
    ELSE IF Len(hashes) = 1 THEN <<hash_pair(hashes[1], hashes[1])>>
    ELSE <<hash_pair(hashes[1], hashes[2])>> \o MerkleLevel(SubSeq(hashes, 3, Len(hashes)))

RECURSIVE MerkleReduce(_)
MerkleReduce(hashes) ==
    IF Len(hashes) = 1 THEN hashes[1] ELSE MerkleReduce(MerkleLevel(hashes))

compute_merkle_root(transactions) ==
    IF Len(transactions) = 0 THEN ZeroHash
    ELSE MerkleReduce([i \in 1..Len(transactions) |-> TxHash(transactions[i])])

\* MerkleProof::verify: the hash reached from current by the path entries
\* k.. of (sibling, is_right)
RECURSIVE MerkleFold(_, _, _)
MerkleFold(current, path, k) ==
    IF k > Len(path) THEN current
    ELSE MerkleFold(IF path[k][2] THEN hash_pair(current, path[k][1])
                    ELSE hash_pair(path[k][1], current),
                    path, k + 1)

MerkleProof_verify(proof, root) == MerkleFold(proof.leaf, proof.path, 1) = root

\* the loop of build_merkle_proof: the entries pushed from the level hashes
\* upward for the node at current_index (counted from 0)
RECURSIVE MerklePath(_, _)
MerklePath(hashes, current_index) ==
    IF Len(hashes) <= 1 THEN <<>>
    ELSE LET i == current_index - (current_index % 2)
             left == hashes[i + 1]
             right == IF i + 1 < Len(hashes) THEN hashes[i + 2] ELSE hashes[i + 1]
         IN  <<IF i = current_index THEN <<right, TRUE>> ELSE <<left, FALSE>>>>
                 \o MerklePath(MerkleLevel(hashes), current_index \div 2)

\* a proof whose entries have the side flag negated
build_merkle_proof_flipped(transactions, index) ==
    IF index >= Len(transactions) THEN <<>>
    ELSE LET hashes == [i \in 1..Len(transactions) |-> TxHash(transactions[i])]
             path == MerklePath(hashes, index)
         IN  <<[leaf |-> hashes[index + 1],
                path |-> [k \in 1..Len(path) |-> <<path[k][1], ~path[k][2]>>]]>>

\* merkle::build_merkle_proof; the Option is a sequence of at most one proof
build_merkle_proof(transactions, index) ==
    IF index >= Len(transactions) THEN <<>>
    ELSE LET hashes == [i \in 1..Len(transactions) |-> TxHash(transactions[i])]
         IN  <<[leaf |-> hashes[index + 1], path |-> MerklePath(hashes, index)]>>

----------------------------------------------------------------------------
(* Transactions (transaction.rs) *)

Keys == {"k1", "k2"}
\* a public_key field that is not 32 bytes of a curve point, a signature
\* field that is not a 64-byte signature of the signing message
Malformed == "malformed"

\* Address::from_public_key: the last 20 bytes of the Keccak-256 digest of
\* the key; k1 is the key of a1 and k2 the key of a2
Address_from_public_key(public_key) ==
    IF public_key = "k1" THEN "a1" ELSE IF public_key = "k2" THEN "a2" ELSE "none"

\* memo bytes: m >= 0 is format!("Aequitas Block {}", m), -1 the empty memo,
\* -2 a memo of MAX_MEMO + 1 bytes, -3 a memo of MAX_MEMO bytes
MemoLen(m) ==
    IF m = -3 THEN MAX_MEMO
    ELSE IF m = -2 THEN MAX_MEMO + 1
    ELSE IF m = -1 THEN 0
    ELSE IF m < 10 THEN 16 ELSE IF m < 100 THEN 17 ELSE 18

TxInput(prev_tx_hash, output_index, signature, public_key) ==
    [prev_tx_hash |-> prev_tx_hash, output_index |-> output_index,
     signature |-> signature, public_key |-> public_key]

TxOutput(recipient, amount) == [amount |-> amount, recipient |-> recipient]

Transaction(tx_type, inputs, outputs, timestamp, memo) ==
    [version |-> 1, tx_type |-> tx_type, inputs |-> inputs, outputs |-> outputs,
     timestamp |-> timestamp, memo |-> memo]

\* TxInput::verify against the signing message of the transaction that holds it
TxInput_verify(input) ==
    IF input.public_key = Malformed THEN "InvalidPublicKey"
    ELSE IF input.signature # input.public_key THEN "InvalidSignature"
    ELSE "Ok"

\* the first error of input.verify(&message)? over inputs[i..]
RECURSIVE VerifyInputs(_, _)
VerifyInputs(inputs, i) ==
    IF i > Len(inputs) THEN "Ok"
    ELSE IF TxInput_verify(inputs[i]) # "Ok" THEN TxInput_verify(inputs[i])
         ELSE VerifyInputs(inputs, i + 1)

\* a validate that does not verify the inputs
Transaction_validate_unverified(tx) ==
    IF tx.tx_type = "Coinbase" THEN
        IF Len(tx.inputs) # 0 THEN "CoinbaseWithInputs"
        ELSE IF Len(tx.outputs) = 0 THEN "NoOutputs"
        ELSE "Ok"
    ELSE IF Len(tx.inputs) = 0 THEN "NoInputs"
    ELSE IF Len(tx.outputs) = 0 THEN "NoOutputs"
    ELSE IF MemoLen(tx.memo) > MAX_MEMO THEN "MemoTooLarge"
    ELSE "Ok"

\* Transaction::validate
Transaction_validate(tx) ==
    IF tx.tx_type = "Coinbase" THEN
        IF Len(tx.inputs) # 0 THEN "CoinbaseWithInputs"
        ELSE IF Len(tx.outputs) = 0 THEN "NoOutputs"
        ELSE "Ok"
    ELSE IF Len(tx.inputs) = 0 THEN "NoInputs"
    ELSE IF Len(tx.outputs) = 0 THEN "NoOutputs"
    ELSE IF VerifyInputs(tx.inputs, 1) # "Ok" THEN VerifyInputs(tx.inputs, 1)
    ELSE IF MemoLen(tx.memo) > MAX_MEMO THEN "MemoTooLarge"
    ELSE "Ok"

----------------------------------------------------------------------------
(* Blocks (block.rs) *)

BlockHeader(prev_hash, merkle_root, timestamp, difficulty, nonce, h) ==
    [version |-> 1, prev_hash |-> prev_hash, merkle_root |-> merkle_root,
     timestamp |-> timestamp, difficulty |-> difficulty, nonce |-> nonce,
     height |-> h, extra_data |-> 0]

Block(header, transactions) == [header |-> header, transactions |-> transactions]

\* the 32 bytes of BlockHeader::hash.  The digest is a fixed function of the
\* header; the nonce selects it among five values that lie around the target
\* of INITIAL_DIFFICULTY: zero; t = floor(u64::MAX / INITIAL_DIFFICULTY) in
\* the first 8 bytes, followed by zeros; t + 1 followed by zeros; all 0xFF;
\* and t followed by 0xFF bytes.
hash_bytes(header) ==
    LET t == DivDigits(U64_MAX, INITIAL_DIFFICULTY, 1, 0)
    IN  CASE header.nonce = 0 -> [i \in 1..32 |-> 0]
          [] header.nonce = 1 -> t \o [i \in 1..24 |-> 0]
          [] header.nonce = 2 -> IncDigits(t, 8) \o [i \in 1..24 |-> 0]
          [] header.nonce = 4 -> t \o [i \in 1..24 |-> 255]
          [] OTHER -> [i \in 1..32 |-> 255]

\* hash[0..8], the bytes u64::from_be_bytes reads
hash_value(header) == SubSeq(hash_bytes(header), 1, 8)

\* BlockHeader::meets_difficulty: hash_value <= u64::MAX / difficulty
meets_difficulty(header) ==
    DigitsLeq(hash_value(header), DivDigits(U64_MAX, header.difficulty, 1, 0), 1)

\* Block::validate
Block_validate(block) ==
    IF compute_merkle_root(block.transactions) # block.header.merkle_root
        THEN "InvalidMerkleRoot"
    ELSE IF ~meets_difficulty(block.header) THEN "InsufficientProofOfWork"
    ELSE IF \E i \in 1..Len(block.transactions) :
                Transaction_validate(block.transactions[i]) # "Ok"
        THEN "InvalidTransaction"
    ELSE "Ok"

\* Transaction::coinbase(recipient, reward, height) at time now
Transaction_coinbase(recipient, reward, h, now) ==
    Transaction("Coinbase", <<>>, <<TxOutput(recipient, reward)>>, now, h)

\* Block::genesis, created at time 0
Block_genesis ==
    LET coinbase == Transaction_coinbase(GenesisAddress, GENESIS_REWARD, 0, 0)
    IN  Block(BlockHeader(ZeroHash, compute_merkle_root(<<coinbase>>), 0,
                          INITIAL_DIFFICULTY, 0, 0),
              <<coinbase>>)

----------------------------------------------------------------------------
(* Unbounded naturals.  A u64 and the significand products of f64           *)
(* arithmetic do not fit the checker's integers: such a number is the       *)
(* sequence of its base-2^15 limbs, least significant first, without        *)
(* leading zero limbs (zero is the empty sequence).                         *)

LIMB == 2^15

RECURSIVE BN(_)
\* the limbs of a number n >= 0 of the checker
BN(n) == IF n = 0 THEN <<>> ELSE <<n % LIMB>> \o BN(n \div LIMB)

RECURSIVE BNNorm(_)
BNNorm(a) ==
    IF Len(a) > 0 /\ a[Len(a)] = 0 THEN BNNorm(SubSeq(a, 1, Len(a) - 1)) ELSE a

BNLimb(a, i) == IF i <= Len(a) THEN a[i] ELSE 0

RECURSIVE BNAddC(_, _, _, _)
BNAddC(a, b, i, carry) ==
    IF i > Len(a) /\ i > Len(b) THEN (IF carry = 0 THEN <<>> ELSE <<carry>>)
    ELSE LET s == BNLimb(a, i) + BNLimb(b, i) + carry
         IN  <<s % LIMB>> \o BNAddC(a, b, i + 1, s \div LIMB)

BNAdd(a, b) == BNAddC(a, b, 1, 0)

RECURSIVE BNSubB(_, _, _, _)
BNSubB(a, b, i, borrow) ==
    IF i > Len(a) THEN <<>>
    ELSE LET d == a[i] - BNLimb(b, i) - borrow
         IN  IF d < 0 THEN <<d + LIMB>> \o BNSubB(a, b, i + 1, 1)
             ELSE <<d>> \o BNSubB(a, b, i + 1, 0)

\* a - b for a >= b
BNSub(a, b) == BNNorm(BNSubB(a, b, 1, 0))

RECURSIVE BNCmpFrom(_, _, _)
BNCmpFrom(a, b, i) ==
    IF i = 0 THEN 0
    ELSE IF a[i] # b[i] THEN (IF a[i] < b[i] THEN -1 ELSE 1)
         ELSE BNCmpFrom(a, b, i - 1)

\* -1, 0 or 1 as a < b, a = b or a > b
BNCmp(a, b) ==
    IF Len(a) # Len(b) THEN (IF Len(a) < Len(b) THEN -1 ELSE 1)
    ELSE BNCmpFrom(a, b, Len(a))

RECURSIVE BNMulSmallC(_, _, _, _)
BNMulSmallC(a, k, i, carry) ==
    IF i > Len(a) THEN (IF carry = 0 THEN <<>> ELSE <<carry>>)
    ELSE LET p == a[i] * k + carry
         IN  <<p % LIMB>> \o BNMulSmallC(a, k, i + 1, p \div LIMB)

\* a * k for 0 <= k <= LIMB
BNMulSmall(a, k) == IF k = 0 THEN <<>> ELSE BNMulSmallC(a, k, 1, 0)

RECURSIVE BNMulFrom(_, _, _)
BNMulFrom(a, b, i) ==
    IF i > Len(b) THEN <<>>
    ELSE BNAdd(BNMulSmall(a, b[i]), <<0>> \o BNMulFrom(a, b, i + 1))

BNMul(a, b) == BNNorm(BNMulFrom(a, b, 1))

\* the quotient limbs of a[1..i] / k, most significant first, for 0 < k <= LIMB
RECURSIVE BNDivSmallR(_, _, _, _)
BNDivSmallR(a, k, i, rem) ==
    IF i = 0 THEN <<>>
    ELSE LET cur == rem * LIMB + a[i]
         IN  <<cur \div k>> \o BNDivSmallR(a, k, i - 1, cur % k)

\* floor(a / k) for 0 < k <= LIMB
BNDivSmall(a, k) ==
    LET q == BNDivSmallR(a, k, Len(a), 0)
    IN  BNNorm([i \in 1..Len(q) |-> q[Len(q) + 1 - i]])

\* a * 2^k
BNShl(a, k) ==
    IF a = <<>> THEN <<>>
    ELSE [i \in 1..(k \div 15) |-> 0] \o BNMulSmall(a, 2^(k % 15))

\* floor(a / 2^k)
BNShr(a, k) ==
    IF k \div 15 >= Len(a) THEN <<>>
    ELSE BNDivSmall(SubSeq(a, k \div 15 + 1, Len(a)), 2^(k % 15))

RECURSIVE BitLength(_)
BitLength(n) == IF n = 0 THEN 0 ELSE 1 + BitLength(n \div 2)

\* the number of bits of a
BNBitLen(a) == IF a = <<>> THEN 0 ELSE 15 * (Len(a) - 1) + BitLength(a[Len(a)])

\* the largest digit g <= guess with g * d <= r
RECURSIVE BNDigit(_, _, _)
BNDigit(r, d, guess) ==
    IF BNCmp(BNMulSmall(d, guess), r) > 0 THEN BNDigit(r, d, guess - 1) ELSE guess

\* long division by a d > 0 whose top limb is at least LIMB / 2, one limb of
\* the dividend n at a time: the quotient q and the remainder r so far,
\* with the limbs i..1 of n still to bring down.  The guess, made from the
\* top limbs of the remainder and of d, is never below the digit.
RECURSIVE BNDivLimbs(_, _, _, _, _)
BNDivLimbs(n, d, i, q, r) ==
    IF i = 0 \/ Len(q) < 0 \/ Len(r) < 0 THEN [q |-> BNNorm(q), r |-> r]
    ELSE LET r2 == BNNorm(<<n[i]>> \o r)
             top == BNLimb(r2, Len(d) + 1) * LIMB + BNLimb(r2, Len(d))
             g == BNDigit(r2, d, Min(LIMB - 1, top \div d[Len(d)]))
         IN  BNDivLimbs(n, d, i - 1, <<g>> \o q, BNSub(r2, BNMulSmall(d, g)))

\* the number of zero limbs at the low end of a # <<>>
RECURSIVE BNLowZeros(_, _)
BNLowZeros(a, i) == IF a[i] # 0 THEN i - 1 ELSE BNLowZeros(a, i + 1)

\* floor(n / d) and n mod d for d > 0.  The k low zero limbs of d are set
\* aside with the k low limbs of n, which only enter the remainder; the
\* rest of both is scaled so that the top limb of d is at least LIMB / 2.
BNDivMod(n, d) ==
    LET k == Min(BNLowZeros(d, 1), Len(n))
        s == 15 - BitLength(d[Len(d)])
        n1 == BNShl(SubSeq(n, k + 1, Len(n)), s)
        d1 == BNShl(SubSeq(d, k + 1, Len(d)), s)
        qr == BNDivLimbs(n1, d1, Len(n1), <<>>, <<>>)
    IN  [q |-> qr.q, r |-> BNNorm(SubSeq(n, 1, k) \o BNShr(qr.r, s))]

\* u64::MAX
BN_U64_MAX == BNSub(BNShl(<<1>>, 64), <<1>>)

----------------------------------------------------------------------------
(* f64 arithmetic (IEEE 754 binary64, round to nearest, ties to even).      *)
(* A finite nonzero f64 is [kind |-> "finite", neg, m, e]: the value        *)
(* (-1)^neg * m * 2^e with a significand 2^52 <= m < 2^53.  The values met  *)
(* here lie far inside the exponent range, so neither subnormal numbers    *)
(* nor overflow to infinity by rounding occur.                              *)

F64Zero == [kind |-> "zero", neg |-> FALSE, m |-> <<>>, e |-> 0]
F64Inf(neg) == [kind |-> "inf", neg |-> neg, m |-> <<>>, e |-> 0]

\* the f64 nearest to n * 2^e, or to a value just above it when sticky
\* (the discarded part of a quotient was not zero), for n > 0
F64Round(neg, n, e, sticky) ==
    LET len == BNBitLen(n)
    IN  IF len <= 53
        THEN [kind |-> "finite", neg |-> neg, m |-> BNShl(n, 53 - len), e |-> e - (53 - len)]
        ELSE LET s == len - 53
                 q == BNShr(n, s)
                 rem == BNSub(n, BNShl(q, s))
                 c == BNCmp(rem, BNShl(<<1>>, s - 1))
                 up == c > 0 \/ (c = 0 /\ (sticky \/ q[1] % 2 = 1))
                 q2 == IF up THEN BNAdd(q, <<1>>) ELSE q
             IN  IF BNBitLen(q2) > 53
                 THEN [kind |-> "finite", neg |-> neg, m |-> BNShr(q2, 1), e |-> e + s + 1]
                 ELSE [kind |-> "finite", neg |-> neg, m |-> q2, e |-> e + s]

\* `n as f64` for an unsigned integer n
F64FromUInt(n) == IF n = <<>> THEN F64Zero ELSE F64Round(FALSE, n, 0, FALSE)

\* `i as f64` for a signed integer i of the checker
F64FromInt(i) ==
    IF i = 0 THEN F64Zero ELSE F64Round(i < 0, BN(IF i < 0 THEN -i ELSE i), 0, FALSE)

\* a * b
F64Mul(a, b) ==
    IF a.kind = "zero" \/ b.kind = "zero" THEN F64Zero
    ELSE IF a.kind = "inf" \/ b.kind = "inf" THEN F64Inf(a.neg # b.neg)
    ELSE F64Round(a.neg # b.neg, BNMul(a.m, b.m), a.e + b.e, FALSE)

\* a / b for a finite a that is not zero when b is, and a finite b: a quotient of 55 or 56 bits
\* and the sticky flag of its remainder, rounded
F64Div(a, b) ==
    IF b.kind = "zero" THEN F64Inf(a.neg # b.neg)
    ELSE IF a.kind = "zero" THEN F64Zero
    ELSE LET d == BNDivMod(BNShl(a.m, 55), b.m)
         IN  F64Round(a.neg # b.neg, d.q, a.e - b.e - 55, d.r # <<>>)

\* a < b for f64 values that are not NaN
F64Less(a, b) ==
    LET magLess(x, y) ==
            IF x.kind = "inf" \/ y.kind = "inf" THEN x.kind # "inf" /\ y.kind = "inf"
            ELSE IF x.e # y.e THEN x.e < y.e
            ELSE BNCmp(x.m, y.m) < 0
    IN  IF a.kind = "zero" THEN b.kind # "zero" /\ ~b.neg
        ELSE IF b.kind = "zero" THEN a.neg
        ELSE IF a.neg # b.neg THEN a.neg
        ELSE IF a.neg THEN magLess(b, a) ELSE magLess(a, b)

\* f64::clamp(x, min, max)
F64Clamp(x, min, max) ==
    IF F64Less(x, min) THEN min ELSE IF F64Less(max, x) THEN max ELSE x

\* `x as u64`: toward zero, saturating at 0 and u64::MAX
F64ToU64(x) ==
    IF x.kind = "zero" \/ x.neg THEN <<>>
    ELSE IF x.kind = "inf" THEN BN_U64_MAX
    ELSE IF x.e >= 12 THEN BN_U64_MAX
    ELSE IF x.e >= 0 THEN BNShl(x.m, x.e)
    ELSE BNShr(x.m, -x.e)

----------------------------------------------------------------------------
(* Difficulty (difficulty.rs) *)

\* MAX_ADJUSTMENT_FACTOR = 1.10 and MIN_ADJUSTMENT_FACTOR = 0.90: the f64
\* nearest to the decimal literal
MAX_ADJUSTMENT_FACTOR == F64Div(F64FromInt(11), F64FromInt(10))
MIN_ADJUSTMENT_FACTOR == F64Div(F64FromInt(9), F64FromInt(10))

\* calculate_next with the ratio average_time / target_time as adjustment
Difficulty_calculate_next_inverted(current, times) ==
    IF Len(times) < 2 THEN current
    ELSE
        LET window_size == Min(Len(times), DIFFICULTY_AVERAGING_WINDOW)
            first == times[Len(times) - window_size + 1]
            last == times[Len(times)]
            time_span == F64FromInt(last[2] - first[2])
            block_count == F64FromInt(window_size - 1)
            average_time == F64Div(time_span, block_count)
            target_time == F64FromInt(TARGET_BLOCK_TIME)
            adjustment == F64Clamp(F64Div(average_time, target_time),
                                   MIN_ADJUSTMENT_FACTOR, MAX_ADJUSTMENT_FACTOR)
            new_difficulty == F64ToU64(F64Mul(F64FromUInt(current), adjustment))
        IN  IF block_count.kind = "zero" THEN current
            ELSE IF BNCmp(new_difficulty, BN(MIN_DIFFICULTY)) < 0 THEN BN(MIN_DIFFICULTY)
            ELSE new_difficulty

\* Difficulty::calculate_next.  current is a u64 given by its limbs,
\* times (block_times) a sequence of <<height, timestamp>>; the timestamps are
\* small enough for the i64 subtraction not to overflow.
Difficulty_calculate_next(current, times) ==
    IF Len(times) < 2 THEN current
    ELSE
        LET window_size == Min(Len(times), DIFFICULTY_AVERAGING_WINDOW)
            first == times[Len(times) - window_size + 1]
            last == times[Len(times)]
            time_span == F64FromInt(last[2] - first[2])
            block_count == F64FromInt(window_size - 1)
            average_time == F64Div(time_span, block_count)
            target_time == F64FromInt(TARGET_BLOCK_TIME)
            adjustment == F64Clamp(F64Div(target_time, average_time),
                                   MIN_ADJUSTMENT_FACTOR, MAX_ADJUSTMENT_FACTOR)
            new_difficulty == F64ToU64(F64Mul(F64FromUInt(current), adjustment))
        IN  IF block_count.kind = "zero" THEN current
            ELSE IF BNCmp(new_difficulty, BN(MIN_DIFFICULTY)) < 0 THEN BN(MIN_DIFFICULTY)
            ELSE new_difficulty

\* floor(current * num / den) without leaving the checker's integer range
MulDivFloor(current, num, den) ==
    (current \div den) * num + ((current % den) * num) \div den

\* Difficulty::calculate_next on the difficulties of the ledger, in the
\* checker's integers.  The ledger's states compare it with
\* Difficulty_calculate_next (C12).  The f64 factor TARGET_BLOCK_TIME / (span / count) is the rational
\* TARGET_BLOCK_TIME * count / span: +inf for span = 0 and negative for
\* span < 0, so clamp() gives 1.10 and 0.90 there.
calculate_next(current, times) ==
    IF Len(times) < 2 THEN current
    ELSE
        LET window_size == Min(Len(times), DIFFICULTY_AVERAGING_WINDOW)
            first == times[Len(times) - window_size + 1]
            last == times[Len(times)]
            time_span == last[2] - first[2]
            block_count == window_size - 1
            num == TARGET_BLOCK_TIME * block_count
            new_difficulty ==
                IF time_span = 0 THEN (current * 11) \div 10
                ELSE IF time_span < 0 THEN (current * 9) \div 10
                ELSE IF num * 10 >= time_span * 11 THEN (current * 11) \div 10
                ELSE IF num * 10 <= time_span * 9 THEN (current * 9) \div 10
                ELSE MulDivFloor(current, num, time_span)
        IN  IF block_count = 0 THEN current
            ELSE Max(new_difficulty, MIN_DIFFICULTY)

----------------------------------------------------------------------------
(* The ledger (blockchain.rs).  A chain value c is the Blockchain struct:   *)
(* [blocks, height_index, tip, height, utxos, block_times,                  *)
(*  current_difficulty]; treasury_address is always GenesisAddress.         *)

UtxoId(tx_hash, output_index) == [tx_hash |-> tx_hash, output_index |-> output_index]

\* the ids (tx.hash(), idx) of the outputs of tx, idx counted from 0
OutputIds(tx) == {UtxoId(TxHash(tx), i - 1) : i \in 1..Len(tx.outputs)}

\* the ids that the inputs of tx reference
InputIds(tx) ==
    {UtxoId(tx.inputs[i].prev_tx_hash, tx.inputs[i].output_index) : i \in 1..Len(tx.inputs)}

\* BlockHeader::hash, Block::hash of a header met by the node whose chain is
\* c: the digest the header is stored under, or else the next unused digest
HeaderHash(c, header) ==
    LET known == {d \in DOMAIN c.blocks : c.blocks[d].header = header}
    IN  IF known # {} THEN CHOOSE d \in known : TRUE
        ELSE [kind |-> "header", preimage |-> Cardinality(DOMAIN c.blocks)]

\* Blockchain::new without the genesis UTXOs
Blockchain_new_without_utxos ==
    LET genesis == Block_genesis
        genesis_hash == [kind |-> "header", preimage |-> 0]
    IN  [blocks |-> (genesis_hash :> genesis),
         height_index |-> (0 :> genesis_hash),
         tip |-> genesis_hash,
         height |-> 0,
         utxos |-> << >>,
         block_times |-> <<<<0, genesis.header.timestamp>>>>,
         current_difficulty |-> genesis.header.difficulty]

\* Blockchain::new
Blockchain_new ==
    LET genesis == Block_genesis
        genesis_hash == [kind |-> "header", preimage |-> 0]
        coinbase == genesis.transactions[1]
    IN  [blocks |-> (genesis_hash :> genesis),
         height_index |-> (0 :> genesis_hash),
         tip |-> genesis_hash,
         height |-> 0,
         utxos |-> [id \in OutputIds(coinbase) |-> coinbase.outputs[id.output_index + 1]],
         block_times |-> <<<<0, genesis.header.timestamp>>>>,
         current_difficulty |-> genesis.header.difficulty]

\* the base units in one unit of the ledger's amounts
BASE_UNITS == 5 * 10^8

\* an amount of the ledger in base units, by its limbs
ToBaseUnits(amount) == BNMul(BN(amount), BN(BASE_UNITS))

\* reward_for_height without the return of 0 from the 64th halving on, the
\* shift count taken modulo 64
Blockchain_reward_for_height_uncapped(h) ==
    LET halvings == h \div HALVING_INTERVAL
    IN  BNShr(ToBaseUnits(GENESIS_REWARD), halvings % 64)

\* Blockchain::reward_for_height, in base units: GENESIS_REWARD >> halvings
Blockchain_reward_for_height(h) ==
    LET halvings == h \div HALVING_INTERVAL
    IN  IF halvings >= 64 THEN <<>>
        ELSE BNShr(ToBaseUnits(GENESIS_REWARD), halvings)

\* rewards_for_height with a treasury part of 2% and no solidarity part
Blockchain_rewards_for_height_pair(h) ==
    LET total == Blockchain_reward_for_height(h)
        treasury == BNDivSmall(BNMulSmall(total, 2), 100)
    IN  <<BNSub(total, treasury), treasury, <<>> >>

\* Blockchain::rewards_for_height, in base units:
\* <<miner, treasury, solidarity>>
Blockchain_rewards_for_height(h) ==
    LET total == Blockchain_reward_for_height(h)
        treasury == BNDivSmall(BNMulSmall(total, TREASURY_PERCENTAGE), 100)
        solidarity == BNDivSmall(BNMulSmall(total, SOLIDARITY_PERCENTAGE), 100)
    IN  <<BNSub(BNSub(total, treasury), solidarity), treasury, solidarity>>

\* Blockchain::reward_for_height in the units of the ledger, which hold it
\* exactly up to the second halving (C16)
RECURSIVE Pow2(_)
Pow2(n) == IF n = 0 THEN 1 ELSE 2 * Pow2(n - 1)

reward_for_height(h) ==
    LET halvings == h \div HALVING_INTERVAL
    IN  IF halvings >= 64 THEN 0 ELSE GENESIS_REWARD \div Pow2(halvings)

\* Blockchain::rewards_for_height in the units of the ledger, which hold it
\* exactly before the first halving (C17)
rewards_for_height(h) ==
    LET total == reward_for_height(h)
        treasury == (total * TREASURY_PERCENTAGE) \div 100
        solidarity == (total * SOLIDARITY_PERCENTAGE) \div 100
    IN  <<total - treasury - solidarity, treasury, solidarity>>

\* iter().map(|o| o.amount).sum() over the entries ids of a UTXO map: the
\* entries are added up amount by amount, each amount once per entry that
\* holds it, so the depth of the recursion is the number of distinct amounts
RECURSIVE SumByAmount(_, _, _)
SumByAmount(u, ids, amounts) ==
    IF amounts = {} THEN 0
    ELSE LET v == CHOOSE x \in amounts : TRUE
         IN  v * Cardinality({id \in ids : u[id].amount = v})
             + SumByAmount(u, ids, amounts \ {v})

SumAmounts(u, ids) == SumByAmount(u, ids, {u[id].amount : id \in ids})

\* Blockchain::get_balance
get_balance(c, address) ==
    SumAmounts(c.utxos, {id \in DOMAIN c.utxos : c.utxos[id].recipient = address})

\* Blockchain::circulating_supply
circulating_supply(c) == SumAmounts(c.utxos, DOMAIN c.utxos)

\* Blockchain::get_block_at_height: the heights that have a block
HasBlockAt(c, h) == h \in DOMAIN c.height_index /\ c.height_index[h] \in DOMAIN c.blocks

get_block_at_height(c, h) == c.blocks[c.height_index[h]]

\* the keys of miner_balances with a window that starts at the genesis block
WindowMinersFromGenesis(c) ==
    {get_block_at_height(c, h).transactions[1].outputs[1].recipient :
        h \in {k \in 0..c.height :
                  /\ HasBlockAt(c, k)
                  /\ Len(get_block_at_height(c, k).transactions) > 0
                  /\ Len(get_block_at_height(c, k).transactions[1].outputs) > 0}}

\* the keys of miner_balances in find_smallest_beneficiary: the recipient of
\* the first coinbase output of every block of the window
WindowMiners(c) ==
    LET start_height == Max(c.height - SOLIDARITY_LOOKBACK, 0)
    IN  {get_block_at_height(c, h).transactions[1].outputs[1].recipient :
            h \in {k \in start_height..c.height :
                      /\ HasBlockAt(c, k)
                      /\ Len(get_block_at_height(c, k).transactions) > 0
                      /\ Len(get_block_at_height(c, k).transactions[1].outputs) > 0}}

\* the orders in which a HashMap with the keys S can be iterated
IterationOrders(S) ==
    {o \in [1..Cardinality(S) -> S] : \A i, j \in 1..Cardinality(S) : o[i] = o[j] => i = j}

\* Iterator::min_by_key over the entries in the order o: the first entry
\* whose key is the minimum (best is replaced only by a strictly smaller key)
RECURSIVE MinByKey(_, _, _, _)
MinByKey(o, key, i, best) ==
    IF i > Len(o) THEN best
    ELSE IF ULeq(key[best], key[o[i]]) THEN MinByKey(o, key, i + 1, best)
         ELSE MinByKey(o, key, i + 1, o[i])

\* Blockchain::find_smallest_beneficiary: the addresses a call can return.
\* miner_balances is a std HashMap: its iteration order is unspecified and
\* differs from one map instance to the next, so the call returns the result
\* of min_by_key for some iteration order.
find_smallest_beneficiary(c) ==
    LET miners == WindowMiners(c)
        miner_balances == [a \in miners |-> get_balance(c, a)]
    IN  IF miners = {} THEN {GenesisAddress}
        ELSE {MinByKey(o, miner_balances, 2, o[1]) : o \in IterationOrders(miners)}

\* Blockchain::next_difficulty
next_difficulty(c) == calculate_next(c.current_difficulty, c.block_times)

\* the scan of the inputs without the lookup in spent_in_block
RECURSIVE ScanInputsUnchecked(_, _, _, _)
ScanInputsUnchecked(c, inputs, i, spent) ==
    IF i > Len(inputs) THEN [err |-> "Ok", spent |-> spent]
    ELSE LET utxo_id == UtxoId(inputs[i].prev_tx_hash, inputs[i].output_index)
         IN  IF utxo_id \notin DOMAIN c.utxos THEN [err |-> "MissingUtxo", spent |-> spent]
             ELSE ScanInputsUnchecked(c, inputs, i + 1, spent \cup {utxo_id})

\* the scan of the inputs of one transaction in validate_block_transactions;
\* spent is spent_in_block
RECURSIVE ScanInputs(_, _, _, _)
ScanInputs(c, inputs, i, spent) ==
    IF i > Len(inputs) THEN [err |-> "Ok", spent |-> spent]
    ELSE LET utxo_id == UtxoId(inputs[i].prev_tx_hash, inputs[i].output_index)
         IN  IF utxo_id \in spent THEN [err |-> "DoubleSpend", spent |-> spent]
             ELSE IF utxo_id \notin DOMAIN c.utxos THEN [err |-> "MissingUtxo", spent |-> spent]
             ELSE ScanInputs(c, inputs, i + 1, spent \cup {utxo_id})

\* the loop over transactions[i..] with a spent_in_block of its own for
\* every transaction
RECURSIVE ScanTransactionsApart(_, _, _, _)
ScanTransactionsApart(c, transactions, i, spent) ==
    IF i > Len(transactions) THEN "Ok"
    ELSE LET r == ScanInputs(c, transactions[i].inputs, 1, {})
         IN  IF r.err # "Ok" THEN r.err
             ELSE IF Transaction_validate(transactions[i]) # "Ok" THEN "TxError"
             ELSE ScanTransactionsApart(c, transactions, i + 1, spent)

\* the loop over transactions[i..] in validate_block_transactions
RECURSIVE ScanTransactions(_, _, _, _)
ScanTransactions(c, transactions, i, spent) ==
    IF i > Len(transactions) THEN "Ok"
    ELSE LET r == ScanInputs(c, transactions[i].inputs, 1, spent)
         IN  IF r.err # "Ok" THEN r.err
             ELSE IF Transaction_validate(transactions[i]) # "Ok" THEN "TxError"
             ELSE ScanTransactions(c, transactions, i + 1, r.spent)

RECURSIVE SumOutputs(_, _)
SumOutputs(outputs, i) ==
    IF i > Len(outputs) THEN 0 ELSE outputs[i].amount + SumOutputs(outputs, i + 1)

\* validate_block_transactions without the check of the solidarity recipient
validate_block_transactions_any_recipient(c, block, beneficiary) ==
    IF Len(block.transactions) = 0 THEN "NoTransactions"
    ELSE IF block.transactions[1].tx_type # "Coinbase" THEN "NoCoinbase"
    ELSE
        LET rewards == rewards_for_height(block.header.height)
            coinbase == block.transactions[1]
            total_reward == rewards[1] + rewards[2] + rewards[3]
            coinbase_amount == SumOutputs(coinbase.outputs, 1)
        IN  IF Len(coinbase.outputs) < 3 /\ block.header.height > 0
                THEN "InvalidCoinbaseAmount"
            ELSE IF ~ULeq(coinbase_amount, total_reward) THEN "InvalidCoinbaseAmount"
            ELSE ScanTransactions(c, block.transactions, 2, {})

\* Blockchain::validate_block_transactions; beneficiary is what the call of
\* find_smallest_beneficiary returns when the code reaches it
validate_block_transactions(c, block, beneficiary) ==
    IF Len(block.transactions) = 0 THEN "NoTransactions"
    ELSE IF block.transactions[1].tx_type # "Coinbase" THEN "NoCoinbase"
    ELSE
        LET rewards == rewards_for_height(block.header.height)
            coinbase == block.transactions[1]
            total_reward == rewards[1] + rewards[2] + rewards[3]
            coinbase_amount == SumOutputs(coinbase.outputs, 1)
        IN  IF Len(coinbase.outputs) < 3 /\ block.header.height > 0
                THEN "InvalidCoinbaseAmount"
            ELSE IF ~ULeq(coinbase_amount, total_reward) THEN "InvalidCoinbaseAmount"
            ELSE IF /\ Len(coinbase.outputs) > 2
                    /\ coinbase.outputs[3].recipient # beneficiary
                    /\ block.header.height > 0
                    /\ block.header.height > SOLIDARITY_GRACE_HEIGHT
                THEN "InvalidSolidarityRecipient"
            ELSE ScanTransactions(c, block.transactions, 2, {})

\* HashMap::remove of every key of ids
MapRemove(m, ids) ==
    IF ids \cap DOMAIN m = {} THEN m ELSE [k \in DOMAIN m \ ids |-> m[k]]

\* HashMap::insert of every entry of the map new: an entry of new replaces
\* the entry of m under the same key
MapInsert(m, new) == new @@ m

\* the UTXO map after one transaction of an applied block: the referenced
\* entries removed, then the outputs inserted under (tx.hash(), idx)
ApplyTransaction(u, tx) ==
    MapInsert(MapRemove(u, InputIds(tx)),
              [id \in OutputIds(tx) |-> tx.outputs[id.output_index + 1]])

RECURSIVE ApplyTransactions(_, _, _)
ApplyTransactions(u, transactions, i) ==
    IF i > Len(transactions) THEN u
    ELSE ApplyTransactions(ApplyTransaction(u, transactions[i]), transactions, i + 1)

\* block_times after push and the removal of the newest entry
PushBlockTime_newest_removed(times, entry) ==
    LET pushed == Append(times, entry)
    IN  IF Len(pushed) > DIFFICULTY_AVERAGING_WINDOW * 2
        THEN SubSeq(pushed, 1, Len(pushed) - 1) ELSE pushed

\* block_times after push and the removal of the oldest entry
PushBlockTime(times, entry) ==
    LET pushed == Append(times, entry)
    IN  IF Len(pushed) > DIFFICULTY_AVERAGING_WINDOW * 2 THEN Tail(pushed) ELSE pushed

\* the checks of add_block with the height looked at before the prev_hash
add_block_result_height_first(c, block, beneficiary) ==
    IF block.header.height # c.height + 1 THEN "InvalidHeight"
    ELSE IF block.header.prev_hash # c.tip THEN "InvalidPrevHash"
    ELSE IF block.header.difficulty # next_difficulty(c) THEN "InvalidDifficulty"
    ELSE IF Block_validate(block) # "Ok" THEN Block_validate(block)
    ELSE validate_block_transactions(c, block, beneficiary)

\* the checks of add_block without the one of prev_hash
add_block_result_any_prev(c, block, beneficiary) ==
    IF block.header.height # c.height + 1 THEN "InvalidHeight"
    ELSE IF block.header.difficulty # next_difficulty(c) THEN "InvalidDifficulty"
    ELSE IF Block_validate(block) # "Ok" THEN Block_validate(block)
    ELSE validate_block_transactions(c, block, beneficiary)

\* the first failing check of add_block, "Ok" if there is none
add_block_result(c, block, beneficiary) ==
    IF block.header.prev_hash # c.tip THEN "InvalidPrevHash"
    ELSE IF block.header.height # c.height + 1 THEN "InvalidHeight"
    ELSE IF block.header.difficulty # next_difficulty(c) THEN "InvalidDifficulty"
    ELSE IF Block_validate(block) # "Ok" THEN Block_validate(block)
    ELSE validate_block_transactions(c, block, beneficiary)

\* the "Apply block" part with the difficulty updated before block_times
apply_block_early_retarget(c, block) ==
    LET block_hash == HeaderHash(c, block.header)
        times == PushBlockTime(c.block_times, <<c.height + 1, block.header.timestamp>>)
    IN  [blocks |-> MapInsert(c.blocks, block_hash :> block),
         height_index |-> MapInsert(c.height_index, (c.height + 1) :> block_hash),
         tip |-> block_hash,
         height |-> c.height + 1,
         utxos |-> ApplyTransactions(c.utxos, block.transactions, 1),
         block_times |-> times,
         current_difficulty |-> calculate_next(c.current_difficulty, c.block_times)]

\* the "Apply block" part without the insert into height_index
apply_block_unindexed(c, block) ==
    LET block_hash == HeaderHash(c, block.header)
        times == PushBlockTime(c.block_times, <<c.height + 1, block.header.timestamp>>)
    IN  [blocks |-> MapInsert(c.blocks, block_hash :> block),
         height_index |-> c.height_index,
         tip |-> block_hash,
         height |-> c.height + 1,
         utxos |-> ApplyTransactions(c.utxos, block.transactions, 1),
         block_times |-> times,
         current_difficulty |-> calculate_next(c.current_difficulty, times)]

\* the ledger after the "Apply block" part of add_block
apply_block(c, block) ==
    LET block_hash == HeaderHash(c, block.header)
        times == PushBlockTime(c.block_times, <<c.height + 1, block.header.timestamp>>)
    IN  [blocks |-> MapInsert(c.blocks, block_hash :> block),
         height_index |-> MapInsert(c.height_index, (c.height + 1) :> block_hash),
         tip |-> block_hash,
         height |-> c.height + 1,
         utxos |-> ApplyTransactions(c.utxos, block.transactions, 1),
         block_times |-> times,
         current_difficulty |-> calculate_next(c.current_difficulty, times)]

\* add_block with the UTXO update made before the transactions are validated
add_block_partial(c, block, beneficiary) ==
    IF add_block_result(c, block, beneficiary) = "Ok" THEN apply_block(c, block)
    ELSE IF add_block_result(c, block, beneficiary) \in {"DoubleSpend", "MissingUtxo"}
         THEN [c EXCEPT !.utxos = ApplyTransaction(c.utxos, block.transactions[1])]
         ELSE c

\* Blockchain::add_block: the chain it leaves
add_block(c, block, beneficiary) ==
    IF add_block_result(c, block, beneficiary) = "Ok" THEN apply_block(c, block) ELSE c

----------------------------------------------------------------------------
(* The blocks presented to add_block *)

\* the Blockchain value held in the state variables
Self ==
    [blocks |-> blocks, height_index |-> height_index, tip |-> tip, height |-> height,
     utxos |-> utxos, block_times |-> block_times, current_difficulty |-> current_difficulty]

\* the chain SpecLate starts from has this height
BootHeight == SOLIDARITY_GRACE_HEIGHT

\* seconds between the tip and a presented block
TimeDeltas == {30, 10}

\* a coinbase for height h: Miner, Dev Fund and Solidarity Fund outputs
\* ("std"), the same with one unit too many ("over"), the same with a Dev
\* Fund amount of 2^64 - 500_000_000 base units ("wrap"), or a single output.
\* stamp "fresh" is Transaction::coinbase at time now (memo = height); stamp
\* "replayed" repeats the time and memo of a coinbase seen before.
CoinbaseOf(tx_type, shape, miner, solidarity, stamp, h, now) ==
    LET r == rewards_for_height(h)
        outputs ==
            CASE shape = "std" ->
                    <<TxOutput(miner, r[1]), TxOutput(GenesisAddress, r[2]),
                      TxOutput(solidarity, r[3])>>
              [] shape = "over" ->
                    <<TxOutput(miner, r[1] + 1), TxOutput(GenesisAddress, r[2]),
                      TxOutput(solidarity, r[3])>>
              [] shape = "wrap" ->
                    <<TxOutput(miner, r[1]), TxOutput(GenesisAddress, -1),
                      TxOutput(solidarity, r[3])>>
              [] OTHER -> <<TxOutput(miner, r[1] + r[2] + r[3])>>
    IN  Transaction(tx_type, <<>>, outputs,
                    IF stamp = "fresh" THEN now ELSE 0,
                    IF stamp = "fresh" THEN h ELSE 0)

\* an id that no accepted transaction ever creates
MissingId == UtxoId(TxHash(Transaction("Transfer", <<>>, <<>>, 0, -1)), 0)

\* the outputs a presented transfer tries to spend: the first coinbase output
\* of the tip block and, below BootHeight, the genesis output
SpendTargets(c) ==
    {UtxoId(TxHash(c.blocks[c.tip].transactions[1]), 0)}
    \cup (IF c.height < BootHeight
          THEN {UtxoId(TxHash(Block_genesis.transactions[1]), 0)} ELSE {})

AmountAt(c, id) == IF id \in DOMAIN c.utxos THEN c.utxos[id].amount ELSE 1

SignedInput(id, key) == TxInput(id.tx_hash, id.output_index, key, key)

\* a signed transfer of the outputs ids to one recipient
Transfer(ids, recipient, amount, now) ==
    Transaction("Transfer", [i \in 1..Len(ids) |-> SignedInput(ids[i], "k1")],
                <<TxOutput(recipient, amount)>>, now, -1)

\* the lists of non-coinbase transactions that follow the coinbase
TransferLists(c, now) ==
    UNION {
        LET v == AmountAt(c, x)
        IN  { <<Transfer(<<x>>, "a1", v, now)>>,
              <<Transfer(<<x>>, "a1", v + 1, now)>>,
              <<Transfer(<<x>>, "a1", v, now), Transfer(<<x>>, "a2", v, now)>>,
              <<Transfer(<<x, x>>, "a1", v, now)>>,
              <<Transfer(<<MissingId>>, "a1", v, now), Transfer(<<x, x>>, "a1", v, now)>>,
              <<Transaction("Transfer", <<TxInput(x.tx_hash, x.output_index, "k2", "k1")>>,
                            <<TxOutput("a1", v)>>, now, -1),
                Transfer(<<x, x>>, "a1", v, now)>> }
        : x \in SpendTargets(c) }
    \cup
    { <<Transfer(<<MissingId>>, "a1", 1, now)>>,
      <<Transaction("Coinbase", <<>>, <<TxOutput("a2", 5)>>, now, -1)>>,
      <<Transaction("Coinbase", <<SignedInput(MissingId, "k1")>>, <<TxOutput("a2", 5)>>, now, -1)>>,
      <<Transaction("Transfer", <<>>, <<TxOutput("a2", 5)>>, now, -1)>>,
      <<Transaction("Transfer", <<SignedInput(MissingId, "k1")>>, <<>>, now, -1)>>,
      <<Transaction("Transfer", <<SignedInput(MissingId, "k1")>>, <<TxOutput("a2", 5)>>, now, -2)>>,
      <<Transaction("Transfer", <<TxInput(MissingId.tx_hash, 0, "k1", Malformed)>>,
                    <<TxOutput("a2", 5)>>, now, -1)>> }

\* a block on chain c; the four flags say which header fields are right
MakeBlock(c, prevOk, heightOk, difficultyOk, merkleOk, nonce, delta, transactions) ==
    Block(BlockHeader(IF prevOk THEN c.tip ELSE ZeroHash,
                      IF merkleOk THEN compute_merkle_root(transactions)
                      ELSE hash_pair(ZeroHash, ZeroHash),
                      c.blocks[c.tip].header.timestamp + delta,
                      IF difficultyOk THEN next_difficulty(c) ELSE next_difficulty(c) + 1,
                      nonce,
                      IF heightOk THEN c.height + 1 ELSE c.height),
          transactions)

\* the coinbase of an honest block mined by a1
DefaultCoinbase(c, solidarity, now) ==
    CoinbaseOf("Coinbase", "std", "a1", solidarity, "fresh", c.height + 1, now)

\* the header flags presented: every combination of faults below BootHeight,
\* at most one fault on the booted chain
HeaderFlags(c) ==
    {f \in [prev : BOOLEAN, height : BOOLEAN, difficulty : BOOLEAN, merkle : BOOLEAN] :
        \/ c.height < BootHeight
        \/ Cardinality({x \in {"prev", "height", "difficulty", "merkle"} : ~f[x]}) <= 1}

\* header faults and the five hash values, over an honest transaction list
HeaderFaultBlocks(c, solidarity) ==
    LET now == c.blocks[c.tip].header.timestamp + 30
        nonces(f) == IF f.prev /\ f.height /\ f.difficulty /\ f.merkle
                     THEN {0, 1, 2, 3, 4}
                     ELSE IF c.height < BootHeight THEN {0, 2} ELSE {0}
    IN  {MakeBlock(c, f.prev, f.height, f.difficulty, f.merkle, n, 30,
                   <<DefaultCoinbase(c, solidarity, now)>>) :
            <<f, n>> \in UNION {{<<g, k>> : k \in nonces(g)} : g \in HeaderFlags(c)}}

\* honest blocks at every block time
TimedBlocks(c, solidarity) ==
    {MakeBlock(c, TRUE, TRUE, TRUE, TRUE, 0, dt,
               <<DefaultCoinbase(c, solidarity, c.blocks[c.tip].header.timestamp + dt)>>) :
        dt \in TimeDeltas}

\* the coinbases presented below BootHeight: honest ones by either miner,
\* fresh or replayed, one that names a2 for solidarity, and the faulty ones
EarlyCoinbases ==
    {[tx_type |-> "Coinbase", shape |-> "std", miner |-> mi, solidarity |-> GenesisAddress,
      stamp |-> st] : mi \in Miners, st \in {"fresh", "replayed"}}
    \cup {[tx_type |-> "Coinbase", shape |-> "std", miner |-> "a1", solidarity |-> "a2",
           stamp |-> "fresh"]}
    \cup {[tx_type |-> t, shape |-> sh, miner |-> "a1", solidarity |-> GenesisAddress,
           stamp |-> "fresh"] :
            t \in {"Coinbase", "Transfer"}, sh \in {"std", "over", "wrap", "single"}}

\* the coinbases presented on the booted chain: every solidarity recipient
LateCoinbases ==
    {[tx_type |-> "Coinbase", shape |-> "std", miner |-> mi, solidarity |-> so,
      stamp |-> "fresh"] : mi \in Miners, so \in Addresses}

\* a coinbase of the given plans, alone in a block whose header is right but
\* for the hash value selected by nonce
CoinbaseBlocks(c, plans, nonce) ==
    LET now == c.blocks[c.tip].header.timestamp + 30
    IN  {MakeBlock(c, TRUE, TRUE, TRUE, TRUE, nonce, 30,
                   <<CoinbaseOf(p.tx_type, p.shape, p.miner, p.solidarity, p.stamp,
                                c.height + 1, now)>>) : p \in plans}

\* transaction lists after an honest coinbase, on the tip and (below
\* BootHeight) off it; and a block without transactions
TransferBlocks(c, solidarity) ==
    LET now == c.blocks[c.tip].header.timestamp + 30
    IN  {MakeBlock(c, p, TRUE, TRUE, TRUE, 0, 30, <<DefaultCoinbase(c, solidarity, now)>> \o l) :
            p \in (IF c.height < BootHeight THEN BOOLEAN ELSE {TRUE}),
            l \in TransferLists(c, now)}
        \cup {MakeBlock(c, TRUE, TRUE, TRUE, TRUE, 0, 30, <<>>)}

\* the solidarity recipient an honest miner names on chain c: the treasury
\* while the recipient is free, and on the booted chain an address that
\* find_smallest_beneficiary can return, as the RPC submit_block does
HonestSolidarity(c) ==
    IF c.height < BootHeight THEN {GenesisAddress}
    ELSE {CHOOSE a \in find_smallest_beneficiary(c) : TRUE}

\* the blocks presented to a chain whose honest miners name solidarity
Candidates(c, solidarity) ==
    HeaderFaultBlocks(c, solidarity) \cup TimedBlocks(c, solidarity)
    \cup TransferBlocks(c, solidarity)
    \cup (IF c.height < BootHeight THEN CoinbaseBlocks(c, EarlyCoinbases, 0)
          ELSE CoinbaseBlocks(c, LateCoinbases, 0) \cup CoinbaseBlocks(c, LateCoinbases, 3))

\* the addresses of peers
PeerAddrs == {8333, 8334}

----------------------------------------------------------------------------
(* The tasks of the node (node/src/main.rs, node/src/rpc.rs) *)

\* the capacity of the channel from the RPC server to the P2P task
BROADCAST_CHANNEL == 100

\* two handlers of the RPC submit_block
RpcTasks == {"rpc1", "rpc2"}

\* the handlers, the task that processes the network events, and a handler
\* of an RPC that reads the chain
Tasks == RpcTasks \cup {"gossip", "reader"}

\* the tasks after run_node has spawned them, with broadcast blocks in the
\* broadcast channel.  holds: the guard of the RwLock of the ledger a task
\* holds; block: the block it carries; pending: the ledger add_block is
\* writing; source: the peer a gossip message came from
Node_new(broadcast) ==
    [holds |-> [t \in Tasks |-> "none"], pc |-> [t \in Tasks |-> "idle"],
     block |-> [t \in Tasks |-> <<>>], pending |-> [t \in Tasks |-> <<>>],
     source |-> <<>>, broadcast |-> broadcast]

\* RwLock::read takes the guard when RwLock::write gives it to anyone
RwLock_read_any(n) == TRUE

\* RwLock::read takes the guard when no task holds the write guard
RwLock_read(n) == \A t \in Tasks : n.holds[t] # "write"

\* RwLock::write takes the guard when no task holds a guard
RwLock_write(n) == \A t \in Tasks : n.holds[t] = "none"

\* the block submit_block builds on chain c for the nonce of the request
submit_block_candidate(c, solidarity_recipient, nonce) ==
    LET now == c.blocks[c.tip].header.timestamp + 30
    IN  MakeBlock(c, TRUE, TRUE, TRUE, TRUE, nonce, 30,
                  <<CoinbaseOf("Coinbase", "std", "a1", solidarity_recipient, "fresh",
                               c.height + 1, now)>>)

----------------------------------------------------------------------------
(* Target comparisons of the proof of work (pow.rs, aequihash.rs).  A hash *)
(* and a target are sequences of 32 bytes; index 1 is byte 0.               *)

\* pow::hash_less_or_equal, with its loop `for i in 0..32` at byte i - 1
RECURSIVE hash_less_or_equal_from(_, _, _)
hash_less_or_equal_from(a, b, i) ==
    IF i > 32 THEN TRUE
    ELSE IF a[i] < b[i] THEN TRUE
    ELSE IF a[i] > b[i] THEN FALSE
    ELSE hash_less_or_equal_from(a, b, i + 1)

hash_less_or_equal(a, b) == hash_less_or_equal_from(a, b, 1)

\* AequiHash::compare_hash_to_target, with its loop `for i in (0..32).rev()`
\* at byte i - 1
RECURSIVE compare_hash_to_target_from(_, _, _)
compare_hash_to_target_from(hash, target, i) ==
    IF i < 1 THEN TRUE
    ELSE IF hash[i] < target[i] THEN TRUE
    ELSE IF hash[i] > target[i] THEN FALSE
    ELSE compare_hash_to_target_from(hash, target, i - 1)

compare_hash_to_target(hash, target) == compare_hash_to_target_from(hash, target, 32)

\* the bytes i - 1 .. 31 of (2^256 - 1) / difficulty, most significant
\* first, by long division: rem is what the bytes before have left
RECURSIVE difficulty_to_target_from(_, _, _)
difficulty_to_target_from(difficulty, i, rem) ==
    IF i > 32 THEN <<>>
    ELSE LET cur == rem * 256 + 255
         IN  <<cur \div difficulty>>
                 \o difficulty_to_target_from(difficulty, i + 1, cur % difficulty)

\* pow::difficulty_to_target: to_bytes_be of the quotient, zeros before it
difficulty_to_target(difficulty) ==
    IF difficulty = 0 THEN [i \in 1..32 |-> 255]
    ELSE difficulty_to_target_from(difficulty, 1, 0)

\* CpuMiner::mine; light[nonce] is aequihash.hash_light(header_hash, nonce,
\* cache) for the header hash, the epoch and the cache of the call
CpuMiner_mine(light, difficulty, start_nonce, max_nonce) ==
    LET target == difficulty_to_target(difficulty)
        found == {nonce \in start_nonce..(max_nonce - 1) :
                     hash_less_or_equal(light[nonce], target)}
    IN  IF found = {} THEN <<>>
        ELSE LET nonce == CHOOSE n \in found : \A m \in found : n <= m
             IN  <<[nonce |-> nonce, hash |-> light[nonce], mix_hash |-> light[nonce]]>>

\* ProofOfWork::verify with the header hash, the epoch and the cache that
\* light stands for
ProofOfWork_verify(pow, light, difficulty) ==
    compare_hash_to_target(light[pow.nonce], difficulty_to_target(difficulty))

----------------------------------------------------------------------------
(* The state machine *)

\* no function without state has been called
----------------------------------------------------------------------------
(* The nonces of the CPU workers (miner/src/worker.rs) *)

\* batch_size and the number of batches of one pass of a worker's loop
BATCH_SIZE == 10000
BATCHES == 100

\* a + b in u64: the value the sum wraps to and whether it overflowed
U64Add(a, b) ==
    LET sum == BNAdd(a, b)
    IN  IF BNCmp(sum, BN_U64_MAX) > 0
        THEN [value |-> BNSub(sum, BNShl(<<1>>, 64)), overflow |-> TRUE]
        ELSE [value |-> sum, overflow |-> FALSE]

\* nonce_range of MiningWorker::start
MiningWorker_nonce_range(num_threads) == BNDivSmall(BN_U64_MAX, num_threads)

\* the bounds start_nonce..start_nonce + batch_size of the inner loop of
\* CPU worker id in the given batch, as MiningWorker::start starts it:
\* nonce_start = id * nonce_range, then nonce_offset = nonce_start +
\* id * nonce_range.  overflow: one of the three sums left u64
CpuWorker_batch(num_threads, id, batch) ==
    LET nonce_range == MiningWorker_nonce_range(num_threads)
        nonce_start == BNMulSmall(nonce_range, id)
        nonce_offset == U64Add(nonce_start, BNMulSmall(nonce_range, id))
        start_nonce == U64Add(nonce_offset.value, BN(batch * BATCH_SIZE))
        end_nonce == U64Add(start_nonce.value, BN(BATCH_SIZE))
    IN  [start_nonce |-> start_nonce.value, end_nonce |-> end_nonce.value,
         overflow |-> nonce_offset.overflow \/ start_nonce.overflow \/ end_nonce.overflow]

\* the first batch of CPU worker id: whether a sum left u64, and whether the
\* range start_nonce..start_nonce + batch_size of the wrapped sums is empty
CpuWorker_first(num_threads, id) ==
    LET b == CpuWorker_batch(num_threads, id, 0)
    IN  [overflow |-> b.overflow, empty |-> BNCmp(b.start_nonce, b.end_nonce) >= 0]

----------------------------------------------------------------------------
(* Peers (network/src/peer.rs) *)

I32_MAX == 2147483647

\* a + b in i32 for b >= 0: the value the sum wraps to, whether it overflowed
I32Add(a, b) ==
    IF a > I32_MAX - b
    THEN [value |-> ((a - I32_MAX) - 1) + ((b - I32_MAX) - 1), overflow |-> TRUE]
    ELSE [value |-> a + b, overflow |-> FALSE]

\* a - b in i32 for b >= 0
I32Sub(a, b) ==
    IF a < (b - I32_MAX) - 1
    THEN [value |-> ((a + I32_MAX) + 1) + ((I32_MAX - b) + 1), overflow |-> TRUE]
    ELSE [value |-> a - b, overflow |-> FALSE]

\* PeerInfo::new(addr, inbound) at time t; the fields no method reads are
\* left out
PeerInfo_new(addr, inbound, t) ==
    [addr |-> addr, state |-> "Connecting", inbound |-> inbound, height |-> 0,
     last_message |-> t, score |-> 100]

\* PeerInfo::increase_score(amount) where the sum wraps
PeerInfo_increase_score(peer, amount) ==
    [peer EXCEPT !.score = Min(I32Add(peer.score, amount).value, 200)]

\* PeerInfo::decrease_score(amount) where the difference wraps
PeerInfo_decrease_score(peer, amount) ==
    [peer EXCEPT !.score = Max(I32Sub(peer.score, amount).value, -100)]

PeerInfo_should_ban(peer) == peer.score <= -50

MAX_PEERS == 50
MAX_OUTBOUND == 8
\* BAN_DURATION, in seconds
BAN_DURATION == 86400

\* BanInfo::is_expired at time t
BanInfo_is_expired(ban, t) == t - ban.banned_at > ban.duration

\* PeerManager::new()
PeerManager_new == [peers |-> <<>>, banned |-> <<>>, known_addrs |-> <<>>]

\* PeerManager::outbound_count
PeerManager_outbound_count(pm) ==
    Cardinality({a \in DOMAIN pm.peers : ~pm.peers[a].inbound})

\* add_peer with a limit of peers that is one too high
PeerManager_add_peer_result_one_more(pm, addr, inbound, t) ==
    IF addr \in DOMAIN pm.banned /\ ~BanInfo_is_expired(pm.banned[addr], t) THEN "Banned"
    ELSE IF Cardinality(DOMAIN pm.peers) > MAX_PEERS THEN "TooManyPeers"
    ELSE IF ~inbound /\ PeerManager_outbound_count(pm) >= MAX_OUTBOUND THEN "TooManyOutbound"
    ELSE "Ok"

\* what PeerManager::add_peer(addr, inbound) returns at time t
PeerManager_add_peer_result(pm, addr, inbound, t) ==
    IF addr \in DOMAIN pm.banned /\ ~BanInfo_is_expired(pm.banned[addr], t) THEN "Banned"
    ELSE IF Cardinality(DOMAIN pm.peers) >= MAX_PEERS THEN "TooManyPeers"
    ELSE IF ~inbound /\ PeerManager_outbound_count(pm) >= MAX_OUTBOUND THEN "TooManyOutbound"
    ELSE "Ok"

\* the manager after PeerManager::add_peer(addr, inbound) at time t: a ban
\* that has expired is removed before the limits are looked at
PeerManager_add_peer(pm, addr, inbound, t) ==
    LET result == PeerManager_add_peer_result(pm, addr, inbound, t)
        unbanned == IF result = "Banned" THEN pm
                    ELSE [pm EXCEPT !.banned = MapRemove(@, {addr})]
    IN  IF result # "Ok" THEN unbanned
        ELSE [unbanned EXCEPT !.peers =
                  MapInsert(@, [a \in {addr} |-> PeerInfo_new(addr, inbound, t)])]

\* a ban that leaves the connection in place
PeerManager_ban_peer_connected(pm, addr, reason, t) ==
    [pm EXCEPT !.banned =
         MapInsert(@, [a \in {addr} |-> [addr |-> addr, reason |-> reason,
                                          banned_at |-> t, duration |-> BAN_DURATION]])]

\* the manager after PeerManager::ban_peer(addr, reason) at time t
PeerManager_ban_peer(pm, addr, reason, t) ==
    [pm EXCEPT !.peers = MapRemove(@, {addr}),
               !.banned =
         MapInsert(@, [a \in {addr} |-> [addr |-> addr, reason |-> reason,
                                          banned_at |-> t, duration |-> BAN_DURATION]])]

\* the manager after PeerManager::remove_peer(addr)
PeerManager_remove_peer(pm, addr) == [pm EXCEPT !.peers = MapRemove(@, {addr})]

\* the manager after PeerManager::cleanup() at time t: expired bans go, and
\* an Active peer without a message for 300 s loses 10 points
PeerManager_cleanup(pm, t) ==
    [pm EXCEPT !.banned = MapRemove(@, {a \in DOMAIN pm.banned :
                                           BanInfo_is_expired(pm.banned[a], t)}),
               !.peers = [a \in DOMAIN pm.peers |->
                            IF t - pm.peers[a].last_message > 300
                               /\ pm.peers[a].state = "Active"
                            THEN PeerInfo_decrease_score(pm.peers[a], 10)
                            ELSE pm.peers[a]]]

\* the capacity of the job channel and of the result channel
JOB_CHANNEL == 10
RESULT_CHANNEL == 10

\* MiningWorker::new(config) with config.cpu_threads = num_threads.  stop is
\* control.stop; jobs and results are the two channels, a result being
\* counted and not told from another; workers are the threads of the CPU
\* workers; main is where the thread that owns the MiningWorker stands
MiningWorker_new(num_threads) ==
    [num_threads |-> num_threads, stop |-> FALSE, running |-> FALSE,
     jobs |-> <<>>, results |-> 0, workers |-> <<>>,
     main |-> [pc |-> "idle", job |-> 0, left |-> 0]]

\* the thread of a CPU worker at the top of its loop
CpuWorker_thread == [pc |-> "recv", current_job |-> 0]

----------------------------------------------------------------------------
(* The keystore of the wallet (wallet/src/keystore.rs, wallet.rs).  The    *)
(* Argon2 key of a password and a salt opens what was sealed under the same *)
(* password and nothing else.                                               *)

\* the 32 secret bytes of two key pairs, and two passwords
Secrets == {"s1", "s2"}
Passwords == {"pw1", "pw2"}

\* Keypair::from_bytes: s1 is the secret of k1 and s2 the secret of k2
Keypair_from_bytes(secret) ==
    [secret |-> secret, public_key |-> IF secret = "s1" THEN "k1" ELSE "k2"]

\* Keypair::address
Keypair_address(keypair) == Address_from_public_key(keypair.public_key)

\* cipher.encrypt(nonce, secret_bytes) under the key of the password and a
\* new salt
Encrypt(password, secret) == [sealed_with |-> password, plaintext |-> secret]

\* a decrypt that opens a ciphertext under any password
Decrypt_any_password(password, ciphertext) == <<ciphertext.plaintext>>

\* cipher.decrypt(nonce, ciphertext) under the key of the password and the
\* stored salt: the plaintext, or nothing when the tag does not check
Decrypt(password, ciphertext) ==
    IF password = ciphertext.sealed_with THEN <<ciphertext.plaintext>> ELSE <<>>

\* Keystore::new(): data.keys and unlocked
Keystore_new == [keys |-> <<>>, unlocked |-> <<>>]

\* Keystore::add_key
Keystore_add_key(ks, keypair, password) ==
    [ks EXCEPT !.keys = Append(@, [address |-> Keypair_address(keypair),
                                   ciphertext |-> Encrypt(password, keypair.secret)])]

\* data.keys.iter().find(|k| k.address == address_str)
Keystore_find(ks, address) ==
    LET found == {i \in 1..Len(ks.keys) : ks.keys[i].address = address}
    IN  IF found = {} THEN <<>>
        ELSE <<ks.keys[CHOOSE i \in found : \A j \in found : i <= j]>>

\* what Keystore::unlock(address, password) returns
Keystore_unlock_result(ks, address, password) ==
    IF Keystore_find(ks, address) = <<>> THEN "Key not found"
    ELSE IF Decrypt(password, Keystore_find(ks, address)[1].ciphertext) = <<>>
        THEN "Decryption failed"
    ELSE "Ok"

\* the keystore after Keystore::unlock(address, password)
Keystore_unlock(ks, address, password) ==
    IF Keystore_unlock_result(ks, address, password) # "Ok" THEN ks
    ELSE [ks EXCEPT !.unlocked =
             Append(@, [address |-> address,
                        keypair |-> Keypair_from_bytes(
                            Decrypt(password, Keystore_find(ks, address)[1].ciphertext)[1])])]

\* Keystore::lock_all
Keystore_lock_all(ks) == [ks EXCEPT !.unlocked = <<>>]

\* Keystore::is_unlocked
Keystore_is_unlocked(ks, address) ==
    \E i \in 1..Len(ks.unlocked) : ks.unlocked[i].address = address

\* Wallet::create_transaction(from, ..) up to the call of build_and_sign,
\* which gets the signing key of the first unlocked entry of from
Wallet_create_transaction(ks, from) ==
    IF ~Keystore_is_unlocked(ks, from) THEN [err |-> "Address is not unlocked"]
    ELSE LET i == CHOOSE i \in 1..Len(ks.unlocked) :
                     /\ ks.unlocked[i].address = from
                     /\ \A j \in 1..(i - 1) : ks.unlocked[j].address # from
         IN  [err |-> "none", signing_key |-> ks.unlocked[i].keypair.secret]

----------------------------------------------------------------------------
(* The mempool (node/src/mempool.rs) *)

MAX_MEMPOOL_SIZE == 10000

\* MempoolEntry::new(transaction, fee) at time now; size and fee_per_byte
\* are functions of the transaction and the fee
MempoolEntry(transaction, fee, now) ==
    [transaction |-> transaction, added_at |-> now, fee |-> fee]

\* Mempool::new().  transactions holds the entries of the transactions that
\* are presented; others is the number of entries of other transactions
Mempool_new == [transactions |-> <<>>, by_sender |-> <<>>, others |-> 0]

\* self.transactions.len()
Mempool_size(pool) == Cardinality(DOMAIN pool.transactions) + pool.others

\* what Mempool::add(tx, fee) returns
Mempool_add_result(pool, tx) ==
    IF Mempool_size(pool) >= MAX_MEMPOOL_SIZE THEN "MempoolFull"
    ELSE IF TxHash(tx) \in DOMAIN pool.transactions THEN "AlreadyExists"
    ELSE IF Transaction_validate(tx) # "Ok" THEN "InvalidTransaction"
    ELSE "Ok"

\* an add that inserts before it looks for the hash
Mempool_add_replacing(pool, tx, fee, now) ==
    IF Mempool_size(pool) >= MAX_MEMPOOL_SIZE THEN pool
    ELSE [pool EXCEPT !.transactions =
              MapInsert(@, [h \in {TxHash(tx)} |-> MempoolEntry(tx, fee, now)])]

\* the pool after Mempool::add(tx, fee) at time now
Mempool_add(pool, tx, fee, now) ==
    IF Mempool_add_result(pool, tx) # "Ok" THEN pool
    ELSE [pool EXCEPT !.transactions =
              MapInsert(@, [h \in {TxHash(tx)} |-> MempoolEntry(tx, fee, now)])]

\* the pool after Mempool::remove(hash)
Mempool_remove(pool, hash) ==
    [pool EXCEPT !.transactions = MapRemove(@, {hash})]

\* the state of the components after their constructors
ComponentsNew ==
    /\ mempool = Mempool_new
    /\ peer_manager = PeerManager_new
    /\ clock = 0
    /\ mining_worker = MiningWorker_new(0)
    /\ node = Node_new(0)
    /\ keystore = Keystore_new

NoCall == [fn |-> "none", args |-> <<>>, ret |-> <<>>, done |-> TRUE]

\* the height at which block_times holds 2 * DIFFICULTY_AVERAGING_WINDOW
\* entries for the first time
RingHeight == 2 * DIFFICULTY_AVERAGING_WINDOW - 1

\* the state after Blockchain::new()
Init ==
    /\ blocks = Blockchain_new.blocks
    /\ height_index = Blockchain_new.height_index
    /\ tip = Blockchain_new.tip
    /\ height = Blockchain_new.height
    /\ utxos = Blockchain_new.utxos
    /\ block_times = Blockchain_new.block_times
    /\ current_difficulty = Blockchain_new.current_difficulty
    /\ lastResult = "none"
    /\ lastCall = NoCall
    /\ ComponentsNew

HeightInBounds ==
    \/ height < MaxHeight
    \/ height >= BootHeight /\ height < BootHeight + LateBlocks
    \/ height >= RingHeight /\ height < RingHeight + LateBlocks

\* Blockchain::add_block(block), on any presented block; beneficiary is the
\* address find_smallest_beneficiary returns in this call
AddBlock ==
    /\ HeightInBounds
    /\ \E c \in {Self} :
       \E beneficiary \in find_smallest_beneficiary(c) :
       \E solidarity \in HonestSolidarity(c) :
       \E block \in Candidates(c, solidarity) :
       \E after \in {add_block(c, block, beneficiary)} :
          /\ blocks' = after.blocks
          /\ height_index' = after.height_index
          /\ tip' = after.tip
          /\ height' = after.height
          /\ utxos' = after.utxos
          /\ block_times' = after.block_times
          /\ current_difficulty' = after.current_difficulty
          /\ lastResult' = add_block_result(c, block, beneficiary)
          /\ UNCHANGED <<lastCall, components>>

Next == AddBlock

Spec == Init /\ [][Next]_vars

\* the block that extends c in Boot: mined in turn by a1 and a2, 30 s after
\* the tip.  The solidarity recipient is free up to BootHeight: the blocks
\* name a2, the last two the treasury, which leaves a2 one miner reward ahead
\* of a1, so that a block mined by a1 makes the two balances equal.
BootBlock(c) ==
    LET now == c.blocks[c.tip].header.timestamp + 30
        miner == IF (c.height + 1) % 2 = 1 THEN "a1" ELSE "a2"
        solidarity == IF c.height + 1 <= BootHeight - 2 THEN "a2" ELSE GenesisAddress
    IN  MakeBlock(c, TRUE, TRUE, TRUE, TRUE, 0, 30,
                  <<CoinbaseOf("Coinbase", "std", miner, solidarity, "fresh",
                               c.height + 1, now)>>)

\* the chain after honest blocks up to BootHeight, built by add_block itself
RECURSIVE Boot(_)
Boot(c) ==
    IF c.height >= BootHeight THEN c
    ELSE Boot(add_block(c, BootBlock(c), GenesisAddress))

BootChain == Boot(Blockchain_new)

\* a node whose chain has reached BootHeight
InitLate ==
    /\ BootChain.height = BootHeight
    /\ blocks = BootChain.blocks
    /\ height_index = BootChain.height_index
    /\ tip = BootChain.tip
    /\ height = BootChain.height
    /\ utxos = BootChain.utxos
    /\ block_times = BootChain.block_times
    /\ current_difficulty = BootChain.current_difficulty
    /\ lastResult = "Ok"
    /\ lastCall = NoCall
    /\ ComponentsNew

SpecLate == InitLate /\ [][Next]_vars

\* the chain c after honest blocks of a1 up to height h, 30 s apart, built by
\* add_block itself
RECURSIVE Grow(_, _)
Grow(c, h) ==
    IF c.height >= h THEN c
    ELSE \* the one recipient named in the block and found by add_block
         LET solidarity == CHOOSE a \in HonestSolidarity(c) : TRUE
             now == c.blocks[c.tip].header.timestamp + 30
         IN  Grow(add_block(c, MakeBlock(c, TRUE, TRUE, TRUE, TRUE, 0, 30,
                                         <<DefaultCoinbase(c, solidarity, now)>>),
                            solidarity), h)

RingChain == Grow(BootChain, RingHeight)

\* a node whose block_times has just filled
InitRing ==
    /\ RingChain.height = RingHeight
    /\ blocks = RingChain.blocks
    /\ height_index = RingChain.height_index
    /\ tip = RingChain.tip
    /\ height = RingChain.height
    /\ utxos = RingChain.utxos
    /\ block_times = RingChain.block_times
    /\ current_difficulty = RingChain.current_difficulty
    /\ lastResult = "Ok"
    /\ lastCall = NoCall
    /\ ComponentsNew

SpecRing == InitRing /\ [][Next]_vars

----------------------------------------------------------------------------
(* Calls of the functions without state.  The arguments of one call are     *)
(* drawn in the initial state; the action of the function makes the call.   *)

\* a call of fn that has not returned
Call(fn, args) == [fn |-> fn, args |-> args, ret |-> <<>>, done |-> FALSE]

\* the longest list of observations: one more than the retarget window
MaxObservations == 61

\* the last halving period whose heights are drawn
MaxHalvings == 65

\* the seconds between two observations; negative for a clock set back
Intervals == {-5, 0, 10, 29, 30, 31, 60}

\* n observations <<height, timestamp>> that are d seconds apart, the last
\* one l seconds after the one before it
Observations(n, d, l) ==
    [i \in 1..n |-> <<i - 1, IF i = n /\ n > 1 THEN (n - 2) * d + l ELSE (i - 1) * d>>]

ObservationLists ==
    {Observations(n, d, l) :
        n \in {0, 1, 2, 3, MaxObservations - 1, MaxObservations},
        d \in Intervals, l \in Intervals}

\* difficulties from MIN_DIFFICULTY to u64::MAX, those above 2^53 not being
\* f64 values
Currents ==
    {BN(MIN_DIFFICULTY), BN(MIN_DIFFICULTY + 1), BN(1768), BN(1769),
     BN(INITIAL_DIFFICULTY),
     BNAdd(BNShl(<<1>>, 53), BN(3)),
     BNAdd(BNShl(<<1>>, 60), BN(127)),
     BNAdd(BNShl(<<1>>, 63), BN(1023)),
     BNSub(BN_U64_MAX, <<1>>),
     BN_U64_MAX}

\* the first two heights and the last one of the halving periods
Heights ==
    {k * HALVING_INTERVAL + o : k \in 0..MaxHalvings, o \in {0, 1, HALVING_INTERVAL - 1}}

\* 32 bytes that are zero but for byte 0, byte 1 and byte 31
Bytes32(b0, b1, b31) ==
    [i \in 1..32 |-> IF i = 1 THEN b0 ELSE IF i = 2 THEN b1 ELSE IF i = 32 THEN b31 ELSE 0]

ByteValues == {0, 1, 255}

Hashes == {Bytes32(b0, b1, b31) : b0 \in ByteValues, b1 \in ByteValues, b31 \in ByteValues}


\* the longest transaction list of a Merkle tree: three levels, with an odd
\* level below the root
MaxTxs == 7

\* the lists of at most n transactions over txs
RECURSIVE ListsUpTo(_, _)
ListsUpTo(txs, n) ==
    IF n = 0 THEN {<<>>}
    ELSE LET shorter == ListsUpTo(txs, n - 1)
         IN  shorter \cup {Append(l, tx) : l \in {x \in shorter : Len(x) = n - 1}, tx \in txs}

\* lists of two coinbase transactions, repeats included
MerkleLists ==
    ListsUpTo({Transaction_coinbase(a, GENESIS_REWARD, 1, 30) : a \in Miners}, MaxTxs)

\* the most inputs of a drawn transaction
MaxInputs == 2

\* inputs with a key field that is or is not a key, and a signature field
\* that is the signature of that key, of another key, or not a signature
DrawnInputs ==
    {TxInput(TxHash(Block_genesis.transactions[1]), 0, signature, public_key) :
        signature \in Keys \cup {Malformed}, public_key \in {"k1", Malformed}}

\* transactions of the four kinds with 0..MaxInputs inputs, at most one
\* output, and an empty, a short, a longest or an oversized memo
DrawnTransactions ==
    {Transaction(tx_type, inputs, outputs, 30, memo) :
        tx_type \in {"Transfer", "Coinbase", "Vote", "Proposal"},
        inputs \in ListsUpTo(DrawnInputs, MaxInputs),
        outputs \in {<<>>, <<TxOutput("a1", 1)>>},
        memo \in {-3, -2, -1, 0}}

\* the most CPU threads of a miner
MaxThreads == 4

\* the amounts of a score change: none, small ones, the width of the score
\* range and more, and the largest i32
ScoreAmounts == {0, 1, 49, 50, 150, 300, 301, I32_MAX - 200, I32_MAX - 199, I32_MAX}

\* a peer with a score that unit changes of the first score lead to
ScoredPeers == {[PeerInfo_new(8333, FALSE, 0) EXCEPT !.score = v] : v \in -100..200}

\* the nonces of a call of mine are below MaxNonces
MaxNonces == 2

\* 32 bytes that are m but for byte 0 and byte 31
Bytes32Around(b0, m, b31) ==
    [i \in 1..32 |-> IF i = 1 THEN b0 ELSE IF i = 32 THEN b31 ELSE m]

\* hashes around the target of difficulty 3, whose bytes are all 85
LightHashes == {Bytes32Around(b0, 85, b31) : b0 \in {0, 85, 86, 255}, b31 \in {0, 85, 86, 255}}

\* a fresh ledger and one call to make
InitPure ==
    /\ blocks = Blockchain_new.blocks
    /\ height_index = Blockchain_new.height_index
    /\ tip = Blockchain_new.tip
    /\ height = Blockchain_new.height
    /\ utxos = Blockchain_new.utxos
    /\ block_times = Blockchain_new.block_times
    /\ current_difficulty = Blockchain_new.current_difficulty
    /\ lastResult = "none"
    /\ ComponentsNew
    /\ \/ \E current \in Currents, times \in ObservationLists :
             lastCall = Call("calculate_next", [current |-> current, times |-> times])
       \/ \E h \in Heights :
             lastCall = Call("reward_for_height", [height |-> h])
       \/ \E h \in Heights :
             lastCall = Call("rewards_for_height", [height |-> h])
       \/ \E a \in Hashes, b \in Hashes :
             lastCall = Call("hash_less_or_equal", [a |-> a, b |-> b])
       \/ \E hash \in Hashes, target \in Hashes :
             lastCall = Call("compare_hash_to_target", [hash |-> hash, target |-> target])
       \/ \E light \in [0..(MaxNonces - 1) -> LightHashes], difficulty \in {0, 1, 3, 256} :
             \E start_nonce \in 0..(MaxNonces - 1) :
                lastCall = Call("mine", [light |-> light, difficulty |-> difficulty,
                                         start_nonce |-> start_nonce,
                                         max_nonce |-> MaxNonces])
       \/ \E transactions \in MerkleLists :
             \E index \in 0..(Len(transactions) + 1) :
                lastCall = Call("build_merkle_proof",
                                [transactions |-> transactions, index |-> index])
       \/ \E tx \in DrawnTransactions :
             lastCall = Call("validate", [tx |-> tx])
       \/ \E num_threads \in 1..MaxThreads :
             \E id \in 0..(num_threads - 1), batch \in 0..(BATCHES - 1) :
                lastCall = Call("CpuWorker::start",
                                [num_threads |-> num_threads, id |-> id, batch |-> batch])
       \/ \E peer \in ScoredPeers, amount \in ScoreAmounts :
             \E fn \in {"increase_score", "decrease_score"} :
                lastCall = Call(fn, [peer |-> peer, amount |-> amount])
       \/ \E peer \in ScoredPeers :
             lastCall = Call("should_ban", [peer |-> peer])
       \/ \E inbound \in BOOLEAN :
             lastCall = Call("PeerInfo::new", [addr |-> 8333, inbound |-> inbound])

\* the call returns ret
Return(ret) ==
    /\ lastCall' = [lastCall EXCEPT !.ret = ret, !.done = TRUE]
    /\ UNCHANGED <<ledger, lastResult, components>>

Pending(fn) == lastCall.fn = fn /\ ~lastCall.done

\* Difficulty::calculate_next(current, block_times)
CalculateNext ==
    /\ Pending("calculate_next")
    /\ Return(Difficulty_calculate_next(lastCall.args.current, lastCall.args.times))

\* Blockchain::reward_for_height(height)
RewardForHeight ==
    /\ Pending("reward_for_height")
    /\ Return(Blockchain_reward_for_height(lastCall.args.height))

\* Blockchain::rewards_for_height(height)
RewardsForHeight ==
    /\ Pending("rewards_for_height")
    /\ Return(Blockchain_rewards_for_height(lastCall.args.height))

\* pow::hash_less_or_equal(a, b)
HashLessOrEqual ==
    /\ Pending("hash_less_or_equal")
    /\ Return(hash_less_or_equal(lastCall.args.a, lastCall.args.b))

\* AequiHash::compare_hash_to_target(hash, target)
CompareHashToTarget ==
    /\ Pending("compare_hash_to_target")
    /\ Return(compare_hash_to_target(lastCall.args.hash, lastCall.args.target))

\* merkle::build_merkle_proof(transactions, index)
BuildMerkleProof ==
    /\ Pending("build_merkle_proof")
    /\ Return(build_merkle_proof(lastCall.args.transactions, lastCall.args.index))

\* Transaction::validate(&self)
Validate ==
    /\ Pending("validate")
    /\ Return(Transaction_validate(lastCall.args.tx))

\* one batch of the loop of CpuWorker::start: the nonces it runs through.
\* A sum that overflows panics in a build with overflow checks and wraps in
\* a build without them
NonceBatch ==
    /\ Pending("CpuWorker::start")
    /\ \E b \in {CpuWorker_batch(lastCall.args.num_threads, lastCall.args.id,
                                 lastCall.args.batch)} :
       \E panicked \in (IF b.overflow THEN BOOLEAN ELSE {FALSE}) :
          Return([panicked |-> panicked, wrapped |-> b.overflow /\ ~panicked,
                  start_nonce |-> IF panicked THEN <<>> ELSE b.start_nonce,
                  end_nonce |-> IF panicked THEN <<>> ELSE b.end_nonce])

\* PeerInfo::increase_score(amount) and PeerInfo::decrease_score(amount): the
\* peer after the call.  A sum that overflows panics in a build with
\* overflow checks, which leaves the score as it was, and wraps in a build
\* without them
ChangeScore ==
    /\ Pending("increase_score") \/ Pending("decrease_score")
    /\ \E peer \in {lastCall.args.peer}, amount \in {lastCall.args.amount} :
       \E overflow \in {IF lastCall.fn = "increase_score"
                        THEN I32Add(peer.score, amount).overflow
                        ELSE I32Sub(peer.score, amount).overflow} :
       \E panicked \in (IF overflow THEN BOOLEAN ELSE {FALSE}) :
          Return([panicked |-> panicked,
                  peer |-> IF panicked THEN peer
                           ELSE IF lastCall.fn = "increase_score"
                                THEN PeerInfo_increase_score(peer, amount)
                                ELSE PeerInfo_decrease_score(peer, amount)])

\* PeerInfo::should_ban()
ShouldBan ==
    /\ Pending("should_ban")
    /\ Return(PeerInfo_should_ban(lastCall.args.peer))

\* PeerInfo::new(addr, inbound)
NewPeerInfo ==
    /\ Pending("PeerInfo::new")
    /\ Return(PeerInfo_new(lastCall.args.addr, lastCall.args.inbound, 0))

\* CpuMiner::mine(header_hash, difficulty, height, start_nonce, max_nonce)
Mine ==
    /\ Pending("mine")
    /\ Return(CpuMiner_mine(lastCall.args.light, lastCall.args.difficulty,
                            lastCall.args.start_nonce, lastCall.args.max_nonce))

\* ProofOfWork::verify(header_hash, difficulty, epoch, cache) of the proof
\* that mine has returned, with the arguments of mine
VerifyMined ==
    /\ lastCall.fn = "mine" /\ lastCall.done
    /\ lastCall.ret # <<>>
    /\ lastCall' = [fn |-> "verify",
                    args |-> [pow |-> lastCall.ret[1], light |-> lastCall.args.light,
                              difficulty |-> lastCall.args.difficulty],
                    ret |-> ProofOfWork_verify(lastCall.ret[1], lastCall.args.light,
                                               lastCall.args.difficulty),
                    done |-> TRUE]
    /\ UNCHANGED <<ledger, lastResult, components>>

NextPure ==
    \/ CalculateNext
    \/ Mine
    \/ VerifyMined
    \/ RewardForHeight
    \/ RewardsForHeight
    \/ HashLessOrEqual
    \/ CompareHashToTarget
    \/ BuildMerkleProof
    \/ Validate
    \/ NonceBatch
    \/ ChangeScore
    \/ ShouldBan
    \/ NewPeerInfo

SpecPure == InitPure /\ [][NextPure]_vars

\* the call of fn has returned
Returned(fn) == lastCall.fn = fn /\ lastCall.done

----------------------------------------------------------------------------
(* Properties of add_block *)

\* the blocks that can be presented in the current state
PresentedBlocks == UNION {Candidates(Self, s) : s \in HonestSolidarity(Self)}

\* C1: a call of add_block that returns an error leaves blocks, height_index,
\* tip, height, utxos, block_times and current_difficulty as they were.
C1_ErrorLeavesLedger == [][lastResult' # "Ok" => UNCHANGED ledger]_vars

\* a call on a chain of two blocks was refused for an input without UTXO
C1_Witness == lastResult = "MissingUtxo" /\ height = 1

\* the value of the coinbase outputs of the blocks at heights h..c.height
RECURSIVE CoinbaseIssued(_, _)
CoinbaseIssued(c, h) ==
    IF h > c.height THEN 0
    ELSE SumOutputs(get_block_at_height(c, h).transactions[1].outputs, 1)
         + CoinbaseIssued(c, h + 1)

\* C2: circulating_supply() equals the sum of the coinbase outputs of all
\* accepted blocks.
C2_SupplyIsCoinbaseSum == circulating_supply(Self) = CoinbaseIssued(Self, 0)

\* the outputs of the accepted transactions, by block height, position in
\* the block and output index
OutputOccurrences(c) ==
    {o \in (0..c.height) \X (1..4) \X (1..4) :
        /\ o[2] <= Len(get_block_at_height(c, o[1]).transactions)
        /\ o[3] <= Len(get_block_at_height(c, o[1]).transactions[o[2]].outputs)}

\* the UTXO id add_block gives the output o
OccurrenceId(c, o) ==
    UtxoId(TxHash(get_block_at_height(c, o[1]).transactions[o[2]]), o[3] - 1)

\* the ids referenced by the inputs of the accepted transactions
ReferencedIds(c) ==
    UNION {UNION {InputIds(get_block_at_height(c, h).transactions[i]) :
                     i \in 1..Len(get_block_at_height(c, h).transactions)} :
              h \in 0..c.height}

\* C3: the UTXO map holds exactly one entry for every output of an accepted
\* transaction that no accepted input has referenced, and none for a
\* referenced output: the unspent outputs and the entries correspond one to
\* one, so that no unspent output is lost or overwritten.
C3_UtxosAreUnspentOutputs ==
    LET unspent == {o \in OutputOccurrences(Self) :
                       OccurrenceId(Self, o) \notin ReferencedIds(Self)}
    IN  /\ \A o \in OutputOccurrences(Self) :
              (OccurrenceId(Self, o) \in DOMAIN utxos) <=> (o \in unspent)
        /\ Cardinality(unspent) = Cardinality(DOMAIN utxos)

\* the ids referenced by transactions[i..], in the order add_block scans them
RECURSIVE ScannedIds(_, _)
ScannedIds(transactions, i) ==
    IF i > Len(transactions) THEN <<>>
    ELSE [j \in 1..Len(transactions[i].inputs) |->
             UtxoId(transactions[i].inputs[j].prev_tx_hash,
                    transactions[i].inputs[j].output_index)]
         \o ScannedIds(transactions, i + 1)

\* C4: every input of an accepted block references a UTXO of the state
\* before the call, and no two inputs of the block reference the same one.
C4_InputsSpendPreState ==
    [][lastResult' = "Ok" =>
          LET ids == ScannedIds(blocks'[tip'].transactions, 1)
          IN  /\ \A j \in 1..Len(ids) : ids[j] \in DOMAIN utxos
              /\ \A j, k \in 1..Len(ids) : ids[j] = ids[k] => j = k]_vars

\* the tip is an accepted block that spends an output
C4_Witness ==
    /\ lastResult = "Ok"
    /\ height = 1
    /\ Len(ScannedIds(blocks[tip].transactions, 1)) > 0

\* C5: after Blockchain::new and after every call of add_block,
\* tip = height_index[height], and blocks holds under tip a block whose
\* header.height is height.
C5_TipIsIndexed ==
    /\ height \in DOMAIN height_index
    /\ height_index[height] = tip
    /\ tip \in DOMAIN blocks
    /\ blocks[tip].header.height = height

\* an accepted block was followed by a refused one
C5_Witness == height = 1 /\ lastResult = "InvalidHeight"

\* C6: a block whose prev_hash is not the tip is refused with
\* InvalidPrevHash and changes nothing, whatever else is wrong with it.
C6_PrevHashFirst ==
    \A beneficiary \in find_smallest_beneficiary(Self) :
    \A block \in PresentedBlocks :
       block.header.prev_hash # tip =>
          /\ add_block_result(Self, block, beneficiary) = "InvalidPrevHash"
          /\ add_block(Self, block, beneficiary) = Self

\* a block off the tip was refused where blocks off the tip with a wrong
\* height, with a wrong Merkle root and with a double spend are presented
C6_Witness ==
    /\ lastResult = "InvalidPrevHash"
    /\ \E block \in PresentedBlocks :
          block.header.prev_hash # tip /\ block.header.height # height + 1
    /\ \E block \in PresentedBlocks :
          block.header.prev_hash # tip /\ Block_validate(block) = "InvalidMerkleRoot"
    /\ \E block \in PresentedBlocks :
          /\ block.header.prev_hash # tip
          /\ ScanTransactions(Self, block.transactions, 2, {}) = "DoubleSpend"

\* the prev-hash, height, difficulty, Merkle-root and proof-of-work checks
PassesHeaderChecks(c, block) ==
    /\ block.header.prev_hash = c.tip
    /\ block.header.height = c.height + 1
    /\ block.header.difficulty = next_difficulty(c)
    /\ block.header.merkle_root = compute_merkle_root(block.transactions)
    /\ meets_difficulty(block.header)

\* the checks validate_block_transactions makes of the first transaction
PassesCoinbaseChecks(c, block, beneficiary) ==
    /\ Len(block.transactions) > 0
    /\ validate_block_transactions(
           c, Block(block.header, <<block.transactions[1]>>), beneficiary) = "Ok"

\* two inputs of the transactions after the first reference one present UTXO
RepeatsPresentInput(c, block) ==
    LET ids == ScannedIds(block.transactions, 2)
    IN  \E j, k \in 1..Len(ids) : j < k /\ ids[j] = ids[k] /\ ids[j] \in DOMAIN c.utxos

\* an input repeats an earlier one, and every input scanned before it
\* references a present UTXO
RepeatBeforeMissing(c, block) ==
    LET ids == ScannedIds(block.transactions, 2)
    IN  \E k \in 1..Len(ids) :
           /\ \E j \in 1..(k - 1) : ids[j] = ids[k]
           /\ \A m \in 1..(k - 1) : ids[m] \in DOMAIN c.utxos

\* C7 as stated: a block that passes the prev-hash, height, difficulty,
\* Merkle-root, proof-of-work and coinbase checks and has two inputs that
\* reference the same present UTXO is refused with DoubleSpend, and the
\* ledger is unchanged.
C7_DoubleSpendReported ==
    \A beneficiary \in find_smallest_beneficiary(Self) :
    \A block \in PresentedBlocks :
       (/\ PassesHeaderChecks(Self, block)
        /\ PassesCoinbaseChecks(Self, block, beneficiary)
        /\ RepeatsPresentInput(Self, block)) =>
          /\ add_block_result(Self, block, beneficiary) = "DoubleSpend"
          /\ add_block(Self, block, beneficiary) = Self

\* C7 amended: such a block is refused with DoubleSpend, and the ledger is
\* unchanged, when moreover every transaction of the block passes
\* Transaction::validate and every input scanned before the repeated
\* reference names a present UTXO.
C7_DoubleSpendBeforeOtherFaults ==
    \A beneficiary \in find_smallest_beneficiary(Self) :
    \A block \in PresentedBlocks :
       (/\ PassesHeaderChecks(Self, block)
        /\ PassesCoinbaseChecks(Self, block, beneficiary)
        /\ \A i \in 1..Len(block.transactions) :
              Transaction_validate(block.transactions[i]) = "Ok"
        /\ RepeatBeforeMissing(Self, block)) =>
          /\ add_block_result(Self, block, beneficiary) = "DoubleSpend"
          /\ add_block(Self, block, beneficiary) = Self

\* a block was refused for a double spend after one was accepted
C7_Witness == lastResult = "DoubleSpend" /\ height = 1

WindowRecipients ==
    {blocks[height_index[h]].transactions[1].outputs[1].recipient :
        h \in Max(height - SOLIDARITY_LOOKBACK, 0)..height}

C10_OneBeneficiary == Cardinality(find_smallest_beneficiary(Self)) = 1

\* the amounts of outputs, summed as unbounded integers, are at most limit:
\* an amount of 2^63 base units or more (a negative signed reading) exceeds
\* every reward by itself, and smaller amounts add up without wrapping
UnboundedSumWithin(outputs, limit) ==
    /\ \A i \in 1..Len(outputs) : outputs[i].amount >= 0
    /\ SumOutputs(outputs, 1) <= limit

\* C11: every block accepted at a height above 0 starts with a transaction
\* of type Coinbase that has at least 3 outputs whose amounts, summed as
\* unbounded integers, do not exceed reward_for_height(height).
C11_CoinbaseWithinReward ==
    \A h \in 1..height :
       LET coinbase == get_block_at_height(Self, h).transactions[1]
       IN  /\ coinbase.tx_type = "Coinbase"
           /\ Len(coinbase.outputs) >= 3
           /\ UnboundedSumWithin(coinbase.outputs, reward_for_height(h))

Target256(difficulty) == DivDigits([i \in 1..32 |-> 255], difficulty, 1, 0)

\* C13: the header hash of every accepted block, read as a 256-bit
\* big-endian integer, is at most floor((2^256 - 1) / header.difficulty).
C13_HashWithinTarget ==
    \A h \in 1..height :
       LET header == get_block_at_height(Self, h).header
       IN  DigitsLeq(hash_bytes(header), Target256(header.difficulty), 1)

----------------------------------------------------------------------------
(* Properties of the difficulty retarget *)

\* the observations calculate_next reads: the last
\* DIFFICULTY_AVERAGING_WINDOW of times, for Len(times) >= 2
WindowCount(times) == Min(Len(times), DIFFICULTY_AVERAGING_WINDOW) - 1
WindowSpan(times) == times[Len(times)][2] - times[Len(times) - WindowCount(times)][2]

\* C14: for every current >= MIN_DIFFICULTY and every list of observations,
\* with equal or decreasing timestamps too, calculate_next(current, times)
\* is at least MIN_DIFFICULTY and lies between 0.90 * current and
\* 1.10 * current, up to one unit of truncation; with fewer than 2
\* observations it returns current.
C14_NextWithinTenPercent ==
    Returned("calculate_next") =>
        LET current == lastCall.args.current
            ret == lastCall.ret
        IN  /\ BNCmp(ret, BN(MIN_DIFFICULTY)) >= 0
            /\ BNCmp(BNMulSmall(BNAdd(ret, <<1>>), 10), BNMulSmall(current, 9)) >= 0
            /\ BNCmp(BNMulSmall(BNSub(ret, <<1>>), 10), BNMulSmall(current, 11)) <= 0
            /\ (Len(lastCall.args.times) < 2 => ret = current)

----------------------------------------------------------------------------
(* Properties of the block reward *)

\* C16: reward_for_height(h) is floor(GENESIS_REWARD / 2^k) for
\* k = floor(h / HALVING_INTERVAL) < 64 and 0 for k >= 64; it is 50 * 10^9
\* at height 0, 25 * 10^9 at height 2,100,000 and 12,500,000,000 at height
\* 4,200,000.
C16_RewardHalves ==
    Returned("reward_for_height") =>
        LET h == lastCall.args.height
            k == h \div HALVING_INTERVAL
            ret == lastCall.ret
            genesis_reward == BNMul(BN(50), BN(10^9))
        IN  /\ k < 64 => /\ BNCmp(BNShl(ret, k), genesis_reward) <= 0
                         /\ BNCmp(genesis_reward, BNShl(BNAdd(ret, <<1>>), k)) < 0
            /\ k >= 64 => ret = <<>>
            /\ h = 0 => ret = genesis_reward
            /\ h = 2100000 => ret = BNMul(BN(25), BN(10^9))
            /\ h = 4200000 => ret = BNMul(BN(125), BN(10^8))
            /\ k <= 2 => ret = ToBaseUnits(reward_for_height(h))

C16_Witness ==
    /\ Returned("reward_for_height")
    /\ lastCall.args.height = 2 * HALVING_INTERVAL
    /\ lastCall.ret = BNMul(BN(125), BN(10^8))

C18_TreasuryTwoPercent ==
    Returned("rewards_for_height") /\ lastCall.args.height = 0 =>
        /\ BNAdd(lastCall.ret[1], lastCall.ret[2]) = ToBaseUnits(GENESIS_REWARD)
        /\ lastCall.ret[2] = BNDivSmall(BNMulSmall(ToBaseUnits(GENESIS_REWARD), 2), 100)

----------------------------------------------------------------------------
(* Properties of the fresh ledger and of the target comparisons *)

\* C19: Blockchain::new() yields height 0, the hash of the genesis block as
\* tip, a UTXO map whose one entry is the genesis coinbase output, paid to
\* the genesis address, and a circulating supply of 50 * 10^9.
C19_FreshLedger ==
    lastResult = "none" =>
        /\ height = 0
        /\ tip = HeaderHash(Self, Block_genesis.header)
        /\ tip \in DOMAIN blocks /\ blocks[tip] = Block_genesis
        /\ Cardinality(DOMAIN utxos) = 1
        /\ \A id \in DOMAIN utxos :
              /\ id = UtxoId(TxHash(Block_genesis.transactions[1]), 0)
              /\ utxos[id] = Block_genesis.transactions[1].outputs[1]
              /\ utxos[id].recipient = GenesisAddress
        /\ ToBaseUnits(circulating_supply(Self)) = BNMul(BN(50), BN(10^9))

C19_Witness ==
    /\ lastResult = "none"
    /\ height = 0
    /\ DOMAIN blocks = {tip}
    /\ DOMAIN utxos # {}

\* a <= b for two sequences of 32 bytes read as numbers, byte 0 the most
\* significant: they are equal or the first byte that differs is smaller
BigEndianLeq(a, b) ==
    LET differ == {i \in 1..32 : a[i] # b[i]}
    IN  \/ differ = {}
        \/ LET first == CHOOSE i \in differ : \A j \in differ : i <= j
           IN  a[first] < b[first]

\* C20: pow::hash_less_or_equal and AequiHash::compare_hash_to_target return
\* true for a pair (hash, target) exactly when the hash, compared byte by
\* byte from the most significant byte (index 0), is less than or equal to
\* the target.
C20_TargetComparisons ==
    /\ Returned("hash_less_or_equal")
          => lastCall.ret = BigEndianLeq(lastCall.args.a, lastCall.args.b)
    /\ Returned("compare_hash_to_target")
          => lastCall.ret = BigEndianLeq(lastCall.args.hash, lastCall.args.target)


----------------------------------------------------------------------------
(* Merkle proofs *)

\* C21: for every transaction list and every index below its length,
\* build_merkle_proof returns a proof of the transaction at that index that
\* verifies against compute_merkle_root of the list, lists of odd length
\* included; for an index at or above the length it returns None.
C21_ProofVerifies ==
    Returned("build_merkle_proof") =>
        LET transactions == lastCall.args.transactions
            index == lastCall.args.index
        IN  IF index < Len(transactions)
            THEN /\ Len(lastCall.ret) = 1
                 /\ lastCall.ret[1].leaf = TxHash(transactions[index + 1])
                 /\ MerkleProof_verify(lastCall.ret[1], compute_merkle_root(transactions))
            ELSE lastCall.ret = <<>>

\* the proof of the last transaction of a list of odd length, which is paired
\* with itself on the first level and is a left node on every level
C21_Witness ==
    /\ Returned("build_merkle_proof")
    /\ Len(lastCall.args.transactions) = 5
    /\ lastCall.args.index = 4
    /\ Len(lastCall.ret) = 1
    /\ Len(lastCall.ret[1].path) = 3
    /\ lastCall.ret[1].path[1] = <<lastCall.ret[1].leaf, TRUE>>
    /\ lastCall.args.transactions[1] # lastCall.args.transactions[5]

----------------------------------------------------------------------------
(* Transaction::validate *)

----------------------------------------------------------------------------
(* The mempool of a node *)

\* the transactions presented to the mempool: a coinbase, a signed transfer,
\* a transfer signed by another key and a transfer without inputs
PoolTransactions ==
    LET spent == TxHash(Block_genesis.transactions[1])
    IN  {Transaction_coinbase("a1", 1, 1, 30),
         Transaction("Transfer", <<TxInput(spent, 0, "k1", "k1")>>, <<TxOutput("a1", 1)>>, 30, -1),
         Transaction("Transfer", <<TxInput(spent, 0, "k2", "k1")>>, <<TxOutput("a1", 1)>>, 30, -1),
         Transaction("Transfer", <<>>, <<TxOutput("a1", 1)>>, 30, -1)}

\* the fees given with a transaction
Fees == {0, 1}

\* an empty pool, or one that entries of other transactions fill, or fill
\* but for one or two places
InitMempool ==
    /\ blocks = Blockchain_new.blocks
    /\ height_index = Blockchain_new.height_index
    /\ tip = Blockchain_new.tip
    /\ height = Blockchain_new.height
    /\ utxos = Blockchain_new.utxos
    /\ block_times = Blockchain_new.block_times
    /\ current_difficulty = Blockchain_new.current_difficulty
    /\ lastResult = "none"
    /\ lastCall = NoCall
    /\ \E others \in {0, MAX_MEMPOOL_SIZE - 2, MAX_MEMPOOL_SIZE - 1, MAX_MEMPOOL_SIZE} :
          mempool = [Mempool_new EXCEPT !.others = others]
    /\ peer_manager = PeerManager_new
    /\ clock = 0
    /\ mining_worker = MiningWorker_new(0)
    /\ node = Node_new(0)
    /\ keystore = Keystore_new

\* Mempool::add(tx, fee), at time 30
MempoolAdd ==
    \E tx \in PoolTransactions, fee \in Fees :
       /\ mempool' = Mempool_add(mempool, tx, fee, 30)
       /\ lastCall' = [fn |-> "Mempool::add", args |-> [tx |-> tx, fee |-> fee],
                       ret |-> Mempool_add_result(mempool, tx), done |-> TRUE]
       /\ UNCHANGED <<ledger, lastResult, peer_manager, clock, mining_worker, node, keystore>>

\* Mempool::remove(hash) of a hash that has an entry
MempoolRemove ==
    \E hash \in DOMAIN mempool.transactions :
       /\ mempool' = Mempool_remove(mempool, hash)
       /\ lastCall' = [fn |-> "Mempool::remove", args |-> [hash |-> hash],
                       ret |-> <<mempool.transactions[hash]>>, done |-> TRUE]
       /\ UNCHANGED <<ledger, lastResult, peer_manager, clock, mining_worker, node, keystore>>

\* Mempool::clear()
MempoolClear ==
    /\ mempool' = Mempool_new
    /\ lastCall' = [fn |-> "Mempool::clear", args |-> <<>>, ret |-> <<>>, done |-> TRUE]
    /\ UNCHANGED <<ledger, lastResult, peer_manager, clock, mining_worker, node, keystore>>

NextMempool ==
    \/ MempoolAdd
    \/ MempoolRemove
    \/ MempoolClear

SpecMempool == InitMempool /\ [][NextMempool]_vars

\* C23: below MAX_MEMPOOL_SIZE entries, Mempool::add(tx) creates an entry
\* for tx exactly when tx.validate() passes and the hash of tx has no entry
\* yet; an add that returns AlreadyExists, InvalidTransaction or MempoolFull
\* leaves the mempool as it was, and an accepted add changes nothing but the
\* entry it creates.
C23_AddCreatesEntry ==
    [][lastCall'.fn = "Mempool::add" =>
          LET tx == lastCall'.args.tx
              hash == TxHash(tx)
              created == /\ hash \notin DOMAIN mempool.transactions
                         /\ hash \in DOMAIN mempool'.transactions
          IN  /\ Mempool_size(mempool) < MAX_MEMPOOL_SIZE =>
                    (created <=> /\ Transaction_validate(tx) = "Ok"
                                 /\ hash \notin DOMAIN mempool.transactions)
              /\ created => /\ lastCall'.ret = "Ok"
                            /\ mempool'.transactions[hash].transaction = tx
                            /\ mempool'.transactions[hash].fee = lastCall'.args.fee
              /\ \A h \in DOMAIN mempool.transactions :
                    /\ h \in DOMAIN mempool'.transactions
                    /\ mempool'.transactions[h] = mempool.transactions[h]
              /\ lastCall'.ret \in {"Ok", "AlreadyExists", "InvalidTransaction", "MempoolFull"}
              /\ lastCall'.ret # "Ok" => mempool' = mempool
              /\ lastCall'.ret = "MempoolFull" => Mempool_size(mempool) >= MAX_MEMPOOL_SIZE
       ]_vars

\* an accepted add of a second transaction into the last place of the pool
C23_Witness ==
    /\ lastCall.fn = "Mempool::add"
    /\ lastCall.ret = "Ok"
    /\ TxHash(lastCall.args.tx) \in DOMAIN mempool.transactions
    /\ Cardinality(DOMAIN mempool.transactions) = 2
    /\ Mempool_size(mempool) = MAX_MEMPOOL_SIZE

----------------------------------------------------------------------------
(* The miner *)

\* C26: with N CPU workers, worker i hashes only nonces of
\* [i * range, (i + 1) * range), range = u64::MAX / N: every batch of its
\* loop lies in that interval, which keeps the workers' nonces disjoint, and
\* no nonce computation overflows 64 bits.
C26_NonceRanges ==
    Returned("CpuWorker::start") =>
        LET range == MiningWorker_nonce_range(lastCall.args.num_threads)
            id == lastCall.args.id
        IN  /\ ~lastCall.ret.panicked
            /\ ~lastCall.ret.wrapped
            /\ BNCmp(BNMulSmall(range, id), lastCall.ret.start_nonce) <= 0
            /\ BNCmp(lastCall.ret.end_nonce, BNMulSmall(range, id + 1)) <= 0

----------------------------------------------------------------------------
(* The miner: MiningWorker and the threads of its CPU workers *)

\* the most CPU threads of the miner whose threads are followed
MaxWorkers == 2

\* the most jobs submitted
MaxJobs == 2

\* the first batch of every CPU worker of every miner followed
FirstBatches ==
    [num_threads \in 1..MaxWorkers |->
        [id \in 0..(num_threads - 1) |-> CpuWorker_first(num_threads, id)]]

InitMiner ==
    /\ blocks = Blockchain_new.blocks
    /\ height_index = Blockchain_new.height_index
    /\ tip = Blockchain_new.tip
    /\ height = Blockchain_new.height
    /\ utxos = Blockchain_new.utxos
    /\ block_times = Blockchain_new.block_times
    /\ current_difficulty = Blockchain_new.current_difficulty
    /\ lastResult = "none"
    /\ lastCall = NoCall
    /\ mempool = Mempool_new
    /\ peer_manager = PeerManager_new
    /\ clock = 0
    /\ \E num_threads \in 1..MaxWorkers : mining_worker = MiningWorker_new(num_threads)
    /\ node = Node_new(0)
    /\ keystore = Keystore_new

\* the miner becomes m
MinerStep(m) ==
    /\ mining_worker' = m
    /\ UNCHANGED <<ledger, lastResult, lastCall, mempool, peer_manager, clock, node, keystore>>

\* worker id moves to pc
WorkerAt(id, pc) == [mining_worker EXCEPT !.workers[id + 1].pc = pc]

WorkerIds == 0..(Len(mining_worker.workers) - 1)

\* MiningWorker::start: the channels are made anew and the threads spawned
Start ==
    /\ mining_worker.main.pc = "idle"
    /\ ~mining_worker.running
    /\ MinerStep([mining_worker EXCEPT !.jobs = <<>>, !.results = 0, !.running = TRUE,
                               !.workers = [i \in 1..mining_worker.num_threads |-> CpuWorker_thread]])

\* MiningWorker::submit_job(job): the jobs in the channel are cleared; a
\* copy for each CPU worker is then sent
SubmitJob ==
    /\ mining_worker.main.pc = "idle"
    /\ mining_worker.running
    /\ mining_worker.main.job < MaxJobs
    /\ MinerStep([mining_worker EXCEPT !.jobs = <<>>,
                               !.main = [pc |-> "submit", job |-> @.job + 1,
                                         left |-> Len(mining_worker.workers)]])

\* tx.send(job.clone()) of submit_job, which waits while the channel is full
SendJob ==
    /\ mining_worker.main.pc = "submit"
    /\ IF mining_worker.main.left = 0
       THEN MinerStep([mining_worker EXCEPT !.main.pc = "idle"])
       ELSE /\ Len(mining_worker.jobs) < JOB_CHANNEL
            /\ MinerStep([mining_worker EXCEPT !.jobs = Append(@, mining_worker.main.job),
                                       !.main.left = @ - 1])

\* result_rx.try_recv() of the mining loop, between two calls
DrainResult ==
    /\ mining_worker.main.pc = "idle"
    /\ mining_worker.results > 0
    /\ MinerStep([mining_worker EXCEPT !.results = @ - 1])

\* MiningWorker::stop up to the first join: the flag is set
Stop ==
    /\ mining_worker.main.pc = "idle"
    /\ mining_worker.running
    /\ MinerStep([mining_worker EXCEPT !.stop = TRUE,
                               !.main.pc = "join", !.main.left = Len(mining_worker.workers)])

\* CpuWorker::stop of the next worker: handle.join() returns once its thread
\* has ended; after the last one stop returns
Join ==
    /\ mining_worker.main.pc = "join"
    /\ IF mining_worker.main.left = 0
       THEN MinerStep([mining_worker EXCEPT !.workers = <<>>, !.running = FALSE,
                                    !.main.pc = "idle"])
       ELSE /\ mining_worker.workers[Len(mining_worker.workers) + 1 - mining_worker.main.left].pc
                  \in {"stopped", "panicked"}
            /\ MinerStep([mining_worker EXCEPT !.main.left = @ - 1])

\* job_rx.try_recv() at the top of the loop
WorkerRecv(id) ==
    /\ mining_worker.workers[id + 1].pc = "recv"
    /\ IF mining_worker.jobs # <<>>
       THEN MinerStep([mining_worker EXCEPT !.jobs = Tail(@),
                                    !.workers[id + 1] =
                                        [pc |-> "check", current_job |-> Head(mining_worker.jobs)]])
       ELSE MinerStep(WorkerAt(id, "check"))

\* the stop flag is read, and without a job the thread sleeps; with a job it
\* computes nonce_offset and the bounds of the first batch: an overflow
\* panics in a build with overflow checks, and without them the sums wrap,
\* which can leave the range of the first batch empty
WorkerCheck(id) ==
    /\ mining_worker.workers[id + 1].pc = "check"
    /\ IF mining_worker.stop THEN MinerStep(WorkerAt(id, "stopped"))
       ELSE IF mining_worker.workers[id + 1].current_job = 0 THEN MinerStep(WorkerAt(id, "recv"))
       ELSE \E b \in {FirstBatches[mining_worker.num_threads][id]} :
               \/ MinerStep(WorkerAt(id, IF b.empty THEN "batch_end" ELSE "hash"))
               \/ /\ b.overflow
                  /\ MinerStep(WorkerAt(id, "panicked"))

\* a nonce of the batch meets the target, before the check at the multiple
\* of 10000 ("hash") or after it ("hashed")
FindSolution(id) ==
    /\ mining_worker.workers[id + 1].pc \in {"hash", "hashed"}
    /\ MinerStep(WorkerAt(id, IF mining_worker.workers[id + 1].pc = "hash"
                              THEN "send" ELSE "sent"))

\* result_tx.send(result), which waits while the channel is full
SendResult(id) ==
    /\ mining_worker.workers[id + 1].pc \in {"send", "sent"}
    /\ mining_worker.results < RESULT_CHANNEL
    /\ MinerStep([WorkerAt(id, IF mining_worker.workers[id + 1].pc = "send"
                               THEN "hash" ELSE "hashed")
                     EXCEPT !.results = @ + 1])

\* the nonce that is a multiple of 10000: a job in the channel is taken and
\* dropped, or else the stop flag is read; either ends the batch
CheckPoint(id) ==
    /\ mining_worker.workers[id + 1].pc = "hash"
    /\ IF mining_worker.jobs # <<>>
       THEN MinerStep([WorkerAt(id, "batch_end") EXCEPT !.jobs = Tail(@)])
       ELSE MinerStep(WorkerAt(id, IF mining_worker.stop THEN "batch_end" ELSE "hashed"))

\* the last nonce of the batch
EndBatch(id) ==
    /\ mining_worker.workers[id + 1].pc = "hashed"
    /\ MinerStep(WorkerAt(id, "batch_end"))

\* after a batch the stop flag is read; the next batch follows, or after the
\* last of the BATCHES batches the top of the loop
AfterBatch(id) ==
    /\ mining_worker.workers[id + 1].pc = "batch_end"
    /\ IF mining_worker.stop THEN MinerStep(WorkerAt(id, "recv"))
       ELSE \E last \in BOOLEAN :
               MinerStep(WorkerAt(id, IF last THEN "recv" ELSE "hash"))

\* a step of the thread of worker id that is not the finding of a solution
WorkerProgress(id) ==
    /\ id \in WorkerIds
    /\ \/ WorkerRecv(id)
       \/ WorkerCheck(id)
       \/ SendResult(id)
       \/ CheckPoint(id)
       \/ EndBatch(id)
       \/ AfterBatch(id)

NextMiner ==
    \/ Start
    \/ SubmitJob
    \/ SendJob
    \/ DrainResult
    \/ Stop
    \/ Join
    \/ \E id \in WorkerIds : WorkerProgress(id)
    \/ \E id \in WorkerIds : FindSolution(id)

SpecMiner == InitMiner /\ [][NextMiner]_vars

\* every thread that can take a step takes one, a batch has a last nonce,
\* and the thread inside stop goes on when the thread it joins has ended;
\* nothing makes the owner of the result channel receive from it
SpecMinerFair ==
    /\ SpecMiner
    /\ \A id \in 0..(MaxWorkers - 1) : SF_vars(WorkerProgress(id))
    /\ WF_vars(Join)

\* C27: once MiningWorker::stop has set the stop flag, every CPU worker
\* thread ends and stop returns, whatever the state stop was called in -- a
\* full result channel that nobody receives from included.
C27_StopReturns ==
    (mining_worker.main.pc = "join") ~> (mining_worker.main.pc = "idle" /\ ~mining_worker.running)

\* C39: once submit_job has sent the copies of the last job, every CPU
\* worker whose thread runs makes that job its current job, unless the
\* miner is stopped: no copy is taken by a worker that has the job already
\* and none is dropped by the check inside the batch.
C39_JobReachesWorkers ==
    \A id \in 0..(MaxWorkers - 1) :
       (/\ mining_worker.main.job = MaxJobs
        /\ mining_worker.main.pc = "idle"
        /\ id \in WorkerIds)
       ~> (\/ mining_worker.stop
           \/ /\ id \in WorkerIds
              /\ \/ mining_worker.workers[id + 1].current_job = mining_worker.main.job
                 \/ mining_worker.workers[id + 1].pc = "panicked")

----------------------------------------------------------------------------
(* The node: the tasks that share the ledger *)

\* the nonces of the submit_block requests: one whose hash meets the target
\* and one whose hash does not
RequestNonces == {0, 3}

\* the blocks the node accepts after it has started, at most
NodeBlocks == 1

\* requests and gossip blocks arrive while the chain is short of NodeBlocks
\* more blocks
NodeInBounds ==
    \/ height < NodeBlocks
    \/ height >= BootHeight /\ height < BootHeight + NodeBlocks

\* the blocks the peers publish on chain c: one mined by a2, and one whose
\* coinbase pays a unit too much
GossipBlocks(c) ==
    CoinbaseBlocks(c, {[tx_type |-> "Coinbase", shape |-> sh, miner |-> "a2",
                        solidarity |-> so, stamp |-> "fresh"] :
                          sh \in {"std", "over"}, so \in HonestSolidarity(c)}, 0)

\* a node that has started on a new chain
InitNode ==
    /\ blocks = Blockchain_new.blocks
    /\ height_index = Blockchain_new.height_index
    /\ tip = Blockchain_new.tip
    /\ height = Blockchain_new.height
    /\ utxos = Blockchain_new.utxos
    /\ block_times = Blockchain_new.block_times
    /\ current_difficulty = Blockchain_new.current_difficulty
    /\ lastResult = "none"
    /\ lastCall = NoCall
    /\ ComponentsNew

\* a node whose chain has reached BootHeight with every block, or every
\* block but one, submitted through the RPC; no task receives from the
\* broadcast channel
InitNodeLate ==
    /\ BootHeight = BROADCAST_CHANNEL
    /\ blocks = BootChain.blocks
    /\ height_index = BootChain.height_index
    /\ tip = BootChain.tip
    /\ height = BootChain.height
    /\ utxos = BootChain.utxos
    /\ block_times = BootChain.block_times
    /\ current_difficulty = BootChain.current_difficulty
    /\ lastResult = "Ok"
    /\ lastCall = NoCall
    /\ mempool = Mempool_new
    /\ peer_manager = PeerManager_new
    /\ clock = 0
    /\ mining_worker = MiningWorker_new(0)
    /\ \E broadcast \in {BROADCAST_CHANNEL - 1, BROADCAST_CHANNEL} :
          node = Node_new(broadcast)
    /\ keystore = Keystore_new

\* the node becomes n and the ledger is left alone
NodeStep(n) ==
    /\ node' = n
    /\ UNCHANGED <<ledger, lastResult, lastCall, mempool, peer_manager, clock, mining_worker, keystore>>

\* submit_block: state.blockchain.read().await
SubmitBlockRead(t) ==
    /\ node.pc[t] = "idle"
    /\ NodeInBounds
    /\ RwLock_read(node)
    /\ NodeStep([node EXCEPT !.holds[t] = "read", !.pc[t] = "build"])

\* submit_block, "1. Prepare block components": the candidate is built on
\* the ledger as read, and the read guard dropped at the end of the scope
SubmitBlockBuild(t) ==
    /\ node.pc[t] = "build"
    /\ \E solidarity_recipient \in find_smallest_beneficiary(Self) :
       \E nonce \in RequestNonces :
          NodeStep([node EXCEPT
                       !.block[t] = <<submit_block_candidate(Self, solidarity_recipient, nonce)>>,
                       !.holds[t] = "none", !.pc[t] = "built"])

\* the P2P task hands NetworkEvent::NewBlock(block) to the event task; the
\* event does not name the peer the message came from
GossipReceive ==
    /\ node.pc["gossip"] = "idle"
    /\ NodeInBounds
    /\ \E source \in PeerAddrs :
       \E block \in GossipBlocks(Self) :
          NodeStep([node EXCEPT !.block["gossip"] = <<block>>, !.source = <<source>>,
                                !.pc["gossip"] = "got"])

\* state.blockchain.write().await of submit_block, blockchain_ev.write().await
\* of the event task
AcquireWrite(t) ==
    /\ node.pc[t] \in {"built", "got"}
    /\ RwLock_write(node)
    /\ NodeStep([node EXCEPT !.holds[t] = "write", !.pc[t] = "add"])

\* chain.add_block(block) up to its writes to the UTXO map: a block that
\* fails a check is answered (submit_block) or logged (event task) and the
\* guard dropped
AddBlockValidate(t) ==
    /\ node.pc[t] = "add"
    /\ \E c \in {Self} :
       \E beneficiary \in find_smallest_beneficiary(c) :
       \E result \in {add_block_result(c, node.block[t][1], beneficiary)} :
          IF result = "Ok"
          THEN /\ utxos' = add_block(c, node.block[t][1], beneficiary).utxos
               /\ node' = [node EXCEPT
                              !.pending[t] = <<add_block(c, node.block[t][1], beneficiary)>>,
                              !.pc[t] = "apply"]
               /\ UNCHANGED <<blocks, height_index, tip, height, block_times,
                              current_difficulty, lastResult>>
          ELSE /\ lastResult' = result
               /\ node' = [node EXCEPT !.holds[t] = "none", !.pc[t] = "idle",
                                       !.block[t] = <<>>]
               /\ UNCHANGED ledger
    /\ UNCHANGED <<lastCall, mempool, peer_manager, clock, mining_worker, keystore>>

\* the rest of add_block: blocks, height_index, tip, height, block_times and
\* current_difficulty.  The event task then saves the chain and drops the
\* guard; submit_block saves it and goes on to the broadcast
AddBlockApply(t) ==
    /\ node.pc[t] = "apply"
    /\ blocks' = node.pending[t][1].blocks
    /\ height_index' = node.pending[t][1].height_index
    /\ tip' = node.pending[t][1].tip
    /\ height' = node.pending[t][1].height
    /\ block_times' = node.pending[t][1].block_times
    /\ current_difficulty' = node.pending[t][1].current_difficulty
    /\ lastResult' = "Ok"
    /\ node' = IF t \in RpcTasks
               THEN [node EXCEPT !.pending[t] = <<>>, !.pc[t] = "send"]
               ELSE [node EXCEPT !.pending[t] = <<>>, !.block[t] = <<>>,
                                 !.holds[t] = "none", !.pc[t] = "idle"]
    /\ UNCHANGED <<utxos, lastCall, mempool, peer_manager, clock, mining_worker, keystore>>

\* state.broadcast_tx.send(block).await of submit_block, which completes
\* when the channel has room; the guard is dropped after it
BroadcastSend(t) ==
    /\ node.pc[t] = "send"
    /\ node.broadcast < BROADCAST_CHANNEL
    /\ NodeStep([node EXCEPT !.broadcast = @ + 1, !.block[t] = <<>>,
                             !.holds[t] = "none", !.pc[t] = "idle"])

\* a handler that reads the chain: state.blockchain.read().await
ReaderAcquire ==
    /\ node.pc["reader"] = "idle"
    /\ RwLock_read(node)
    /\ NodeStep([node EXCEPT !.holds["reader"] = "read", !.pc["reader"] = "reading"])

\* the handler returns and its guard is dropped
ReaderRelease ==
    /\ node.pc["reader"] = "reading"
    /\ NodeStep([node EXCEPT !.holds["reader"] = "none", !.pc["reader"] = "idle"])

NextNode ==
    \/ \E t \in RpcTasks : SubmitBlockRead(t)
    \/ \E t \in RpcTasks : SubmitBlockBuild(t)
    \/ GossipReceive
    \/ \E t \in Tasks : AcquireWrite(t)
    \/ \E t \in Tasks : AddBlockValidate(t)
    \/ \E t \in Tasks : AddBlockApply(t)
    \/ \E t \in RpcTasks : BroadcastSend(t)
    \/ ReaderAcquire
    \/ ReaderRelease

SpecNode == InitNode /\ [][NextNode]_vars

SpecNodeLate == InitNodeLate /\ [][NextNode]_vars

\* the ledger c is one that add_block left: the tip is the block indexed at
\* the height, and the UTXO map holds the unspent outputs of its blocks
LedgerWhole(c) ==
    LET unspent == {o \in OutputOccurrences(c) : OccurrenceId(c, o) \notin ReferencedIds(c)}
    IN  /\ c.height \in DOMAIN c.height_index
        /\ c.tip = c.height_index[c.height]
        /\ \A o \in OutputOccurrences(c) :
              (OccurrenceId(c, o) \in DOMAIN c.utxos) <=> (o \in unspent)
        /\ Cardinality(unspent) = Cardinality(DOMAIN c.utxos)

\* C24: whatever the interleaving of the submit_block handlers, the event
\* task and the readers, add_block runs from its first check to its last
\* write under the write guard, which one task at most holds and no reader
\* shares: the applications are ordered, and a task that holds a read guard
\* reads a ledger that no add_block has half written.
C24_AddBlockUnderWriteGuard ==
    /\ \A t \in Tasks : node.pc[t] \in {"add", "apply"} => node.holds[t] = "write"
    /\ Cardinality({t \in Tasks : node.holds[t] = "write"}) <= 1
    /\ (\E t \in Tasks : node.holds[t] = "write") =>
          \A t \in Tasks : node.holds[t] # "read"
    /\ (\E t \in Tasks : node.holds[t] = "read") => LedgerWhole(Self)

\* an add_block has written the UTXO map and not yet the tip, while a
\* handler waits for its read guard
C24_Witness ==
    /\ \E t \in Tasks : node.pc[t] = "apply"
    /\ ~LedgerWhole(Self)
    /\ node.pc["reader"] = "idle"

\* C25: no task holds a guard of the ledger while it is suspended: the
\* submit_block handler that awaits the send on the broadcast channel does
\* not hold the write guard.
C25_NoGuardAcrossSend ==
    \A t \in Tasks : node.pc[t] = "send" => node.holds[t] = "none"

\* C28: when the event task has a gossip block rejected by add_block, the
\* ledger is unchanged and the score of the peer the block came from is
\* lowered.
C28_RejectedGossipBlock ==
    [][node.pc["gossip"] = "add" /\ node'.pc["gossip"] = "idle" =>
          /\ UNCHANGED ledger
          /\ node.source[1] \in DOMAIN peer_manager'.peers
          /\ node.source[1] \in DOMAIN peer_manager.peers =>
                peer_manager'.peers[node.source[1]].score
                    < peer_manager.peers[node.source[1]].score]_vars

----------------------------------------------------------------------------
(* The peer manager *)

\* the instants at which the clock is read: around the start and around the
\* end of a ban made in the first second
Instants == {0, 1, BAN_DURATION, BAN_DURATION + 1, BAN_DURATION + 2}

\* the manager after add_peer at time 0 of n other addresses, the first k of
\* them outbound
Connected(n, k) ==
    [PeerManager_new EXCEPT !.peers =
        [addr \in 9001..(9000 + n) |-> PeerInfo_new(addr, addr - 9000 > k, 0)]]

\* the other peers at the start: none, or nearly as many as the limits allow
ConnectedAtStart == {<<0, 0>>, <<MAX_PEERS - 2, MAX_OUTBOUND - 1>>,
                     <<MAX_PEERS - 1, MAX_OUTBOUND - 1>>}

InitPeers ==
    /\ blocks = Blockchain_new.blocks
    /\ height_index = Blockchain_new.height_index
    /\ tip = Blockchain_new.tip
    /\ height = Blockchain_new.height
    /\ utxos = Blockchain_new.utxos
    /\ block_times = Blockchain_new.block_times
    /\ current_difficulty = Blockchain_new.current_difficulty
    /\ lastResult = "none"
    /\ lastCall = NoCall
    /\ mempool = Mempool_new
    /\ \E start \in ConnectedAtStart : peer_manager = Connected(start[1], start[2])
    /\ clock = 0
    /\ mining_worker = MiningWorker_new(0)
    /\ node = Node_new(0)
    /\ keystore = Keystore_new

\* a method of the peer manager was called and returned ret
PeerCall(fn, args, ret) ==
    /\ lastCall' = [fn |-> fn, args |-> args, ret |-> ret, done |-> TRUE]
    /\ UNCHANGED <<ledger, lastResult, mempool, clock, mining_worker, node, keystore>>

\* PeerManager::add_peer(addr, inbound)
AddPeer ==
    \E addr \in PeerAddrs, inbound \in BOOLEAN :
       /\ peer_manager' = PeerManager_add_peer(peer_manager, addr, inbound, clock)
       /\ PeerCall("add_peer", [addr |-> addr, inbound |-> inbound],
                   PeerManager_add_peer_result(peer_manager, addr, inbound, clock))

\* PeerManager::ban_peer(addr, reason)
BanPeer ==
    \E addr \in PeerAddrs :
       /\ peer_manager' = PeerManager_ban_peer(peer_manager, addr, "reason", clock)
       /\ PeerCall("ban_peer", [addr |-> addr], <<>>)

\* PeerManager::remove_peer(addr)
RemovePeer ==
    \E addr \in PeerAddrs :
       /\ peer_manager' = PeerManager_remove_peer(peer_manager, addr)
       /\ PeerCall("remove_peer", [addr |-> addr], <<>>)

\* PeerManager::cleanup()
Cleanup ==
    /\ peer_manager' = PeerManager_cleanup(peer_manager, clock)
    /\ PeerCall("cleanup", <<>>, <<>>)

\* time passes
Tick ==
    \E t \in Instants :
       /\ t > clock
       /\ clock' = t
       /\ UNCHANGED <<ledger, lastResult, lastCall, mempool, peer_manager, mining_worker, node, keystore>>

NextPeers ==
    \/ AddPeer
    \/ BanPeer
    \/ RemovePeer
    \/ Cleanup
    \/ Tick

SpecPeers == InitPeers /\ [][NextPeers]_vars

\* C29: ban_peer(addr) leaves addr banned and not connected; while the ban
\* has not expired, add_peer(addr, _) returns Banned and changes nothing,
\* and once it has expired add_peer no longer returns Banned; no address is
\* at once connected and under a ban that has not expired.
C29_BannedNotConnected ==
    [][/\ \A a \in DOMAIN peer_manager'.peers \cap DOMAIN peer_manager'.banned :
             BanInfo_is_expired(peer_manager'.banned[a], clock')
       /\ lastCall'.fn = "ban_peer" /\ clock' = clock =>
             /\ lastCall'.args.addr \notin DOMAIN peer_manager'.peers
             /\ lastCall'.args.addr \in DOMAIN peer_manager'.banned
             /\ peer_manager'.banned[lastCall'.args.addr].banned_at = clock
       /\ lastCall'.fn = "add_peer" /\ clock' = clock =>
             LET addr == lastCall'.args.addr
                 banned == /\ addr \in DOMAIN peer_manager.banned
                           /\ clock - peer_manager.banned[addr].banned_at <= BAN_DURATION
             IN  /\ lastCall'.ret = "Banned" <=> banned
                 /\ banned => peer_manager' = peer_manager
      ]_vars

\* add_peer was refused for an address banned a whole BAN_DURATION ago, with
\* the other address connected
C29_Witness ==
    /\ lastCall.fn = "add_peer"
    /\ lastCall.ret = "Banned"
    /\ lastCall.args.addr \in DOMAIN peer_manager.banned
    /\ clock - peer_manager.banned[lastCall.args.addr].banned_at = BAN_DURATION
    /\ lastCall.args.addr \notin DOMAIN peer_manager.peers
    /\ DOMAIN peer_manager.peers # {}

\* C38: there are never more than MAX_PEERS connected peers nor more than
\* MAX_OUTBOUND outbound ones; an add_peer that returns TooManyPeers or
\* TooManyOutbound leaves the connected peers as they were, and an add_peer
\* of an address under no ban that would make one more peer than MAX_PEERS
\* or one more outbound peer than MAX_OUTBOUND returns one of the two.
C38_PeerLimits ==
    /\ [](/\ Cardinality(DOMAIN peer_manager.peers) <= MAX_PEERS
          /\ PeerManager_outbound_count(peer_manager) <= MAX_OUTBOUND)
    /\ [][lastCall'.fn = "add_peer" /\ clock' = clock =>
             LET addr == lastCall'.args.addr
                 banned == /\ addr \in DOMAIN peer_manager.banned
                           /\ clock - peer_manager.banned[addr].banned_at <= BAN_DURATION
                 fresh == addr \notin DOMAIN peer_manager.peers
                 more_peers == /\ fresh
                               /\ Cardinality(DOMAIN peer_manager.peers) = MAX_PEERS
                 more_outbound ==
                     /\ ~lastCall'.args.inbound
                     /\ fresh \/ peer_manager.peers[addr].inbound
                     /\ PeerManager_outbound_count(peer_manager) = MAX_OUTBOUND
             IN  /\ lastCall'.ret \in {"TooManyPeers", "TooManyOutbound"} =>
                        peer_manager'.peers = peer_manager.peers
                 /\ ~banned /\ (more_peers \/ more_outbound) =>
                        lastCall'.ret \in {"TooManyPeers", "TooManyOutbound"}
         ]_vars

\* with MAX_PEERS peers connected, MAX_OUTBOUND of them outbound, add_peer of
\* one more address has returned TooManyPeers
C38_Witness ==
    /\ lastCall.fn = "add_peer"
    /\ lastCall.ret = "TooManyPeers"
    /\ lastCall.args.addr \notin DOMAIN peer_manager.peers
    /\ Cardinality(DOMAIN peer_manager.peers) = MAX_PEERS
    /\ PeerManager_outbound_count(peer_manager) = MAX_OUTBOUND

\* C30: the score of a new peer is 100; increase_score and decrease_score
\* with an amount of 0 or more take a score of [-100, 200] to the score
\* moved by the amount and held at the bound it would cross, so that it
\* stays in [-100, 200]; should_ban() is true exactly for a score of -50 or
\* less.
C30_ScoreRange ==
    /\ Returned("PeerInfo::new") => lastCall.ret.score = 100
    /\ Returned("should_ban") => (lastCall.ret <=> lastCall.args.peer.score <= -50)
    /\ Returned("increase_score") \/ Returned("decrease_score") =>
          LET score == lastCall.args.peer.score
              amount == lastCall.args.amount
          IN  /\ ~lastCall.ret.panicked
              /\ lastCall.ret.peer.score \in -100..200
              /\ lastCall.fn = "increase_score" =>
                    lastCall.ret.peer.score =
                        IF amount >= 200 - score THEN 200 ELSE score + amount
              /\ lastCall.fn = "decrease_score" =>
                    lastCall.ret.peer.score =
                        IF amount >= score + 100 THEN -100 ELSE score - amount

----------------------------------------------------------------------------
(* The index of the chain *)

\* C32: in every state of the ledger, height_index is defined at every h of
\* 1..height, the block stored under height_index[h] has header.height = h
\* and header.prev_hash = height_index[h - 1]; a call of add_block that
\* accepts its block raises height by 1 and any other leaves it; and no call
\* changes or removes an entry that blocks or height_index holds.
C32_LinkedIndex ==
    /\ [](\A h \in 1..height :
            /\ h \in DOMAIN height_index /\ (h - 1) \in DOMAIN height_index
            /\ height_index[h] \in DOMAIN blocks
            /\ blocks[height_index[h]].header.height = h
            /\ blocks[height_index[h]].header.prev_hash = height_index[h - 1])
    /\ [][/\ height' = IF lastResult' = "Ok" THEN height + 1 ELSE height
          /\ \A d \in DOMAIN blocks : d \in DOMAIN blocks' /\ blocks'[d] = blocks[d]
          /\ \A h \in DOMAIN height_index :
                h \in DOMAIN height_index' /\ height_index'[h] = height_index[h]]_vars

\* a block was accepted on the booted chain, and then one off the tip
\* refused
C32_Witness ==
    /\ height = BootHeight + 1
    /\ Cardinality(DOMAIN height_index) = height + 1
    /\ lastResult = "InvalidPrevHash"

\* C34: in an accepted block, every input of a transaction after the
\* coinbase carries a verifying key whose address is the recipient of the
\* output it spends.
C34_KeyOwnsSpentOutput ==
    [][lastResult' = "Ok" /\ height' = height + 1 =>
          \A i \in 2..Len(blocks'[tip'].transactions) :
             LET tx == blocks'[tip'].transactions[i]
             IN  tx.tx_type # "Coinbase" =>
                    \A k \in 1..Len(tx.inputs) :
                       LET id == UtxoId(tx.inputs[k].prev_tx_hash, tx.inputs[k].output_index)
                       IN  id \in DOMAIN utxos =>
                              Address_from_public_key(tx.inputs[k].public_key)
                                  = utxos[id].recipient
      ]_vars

\* C35: no block that add_block accepted holds a transaction of type
\* Coinbase after its first transaction.
C35_CoinbaseFirstOnly ==
    \A h \in 1..height :
    \A i \in 2..Len(get_block_at_height(Self, h).transactions) :
        get_block_at_height(Self, h).transactions[i].tx_type # "Coinbase"

\* C36: for two blocks accepted one after the other, the header.difficulty
\* of the later is that of the earlier times a factor of [0.90, 1.10], but
\* for the truncation to an integer and the floor MIN_DIFFICULTY.
C36_DifficultyStep ==
    \A h \in 1..(height - 1) :
        LET earlier == get_block_at_height(Self, h).header.difficulty
            later == get_block_at_height(Self, h + 1).header.difficulty
        IN  \/ later = MIN_DIFFICULTY
            \/ /\ 10 * later <= 11 * earlier
               /\ 10 * (later + 1) > 9 * earlier

----------------------------------------------------------------------------
(* The block times of the retarget *)

\* C37: in every state of the ledger block_times holds at most
\* 2 * DIFFICULTY_AVERAGING_WINDOW = 120 entries; they are the heights that
\* end at height, one after the other, each with the timestamp of the block
\* at that height, so that the last entry is (height, timestamp of the tip).
C37_BlockTimesRing ==
    /\ Len(block_times) = Min(height + 1, 2 * DIFFICULTY_AVERAGING_WINDOW)
    /\ 2 * DIFFICULTY_AVERAGING_WINDOW = 120
    /\ block_times[Len(block_times)] = <<height, blocks[tip].header.timestamp>>
    /\ \A i \in 1..Len(block_times) :
          block_times[i] = <<height - (Len(block_times) - i),
                            get_block_at_height(Self, height - (Len(block_times) - i))
                                .header.timestamp>>

\* a block was accepted on a full block_times, the entry of the genesis
\* block removed
C37_Witness ==
    /\ height > RingHeight
    /\ Len(block_times) = 2 * DIFFICULTY_AVERAGING_WINDOW
    /\ block_times[1][1] > 0
    /\ lastResult = "Ok"

----------------------------------------------------------------------------
(* Candidates that race *)

\* C33: of the candidates that tasks have built or received on one tip, the
\* one add_block applies first may be accepted; a candidate that reaches
\* add_block when its prev_hash is no longer the tip is refused with
\* InvalidPrevHash and leaves the ledger as it is, so that blocks never holds
\* two blocks of one height.
C33_FirstCandidateWins ==
    /\ [](\A d1 \in DOMAIN blocks : \A d2 \in DOMAIN blocks :
             blocks[d1].header.height = blocks[d2].header.height => d1 = d2)
    /\ [][\A t \in Tasks :
             (/\ node.pc[t] = "add"
              /\ node'.pc[t] # "add"
              /\ node.block[t][1].header.prev_hash # tip) =>
                /\ lastResult' = "InvalidPrevHash"
                /\ node'.pc[t] = "idle"
                /\ UNCHANGED ledger]_vars

\* a candidate of submit_block was accepted and broadcast, and a candidate
\* built on the same tip then refused
C33_Witness ==
    /\ height = 1
    /\ node.broadcast = 1
    /\ lastResult = "InvalidPrevHash"

----------------------------------------------------------------------------
(* The miner and the verifier of the proof of work *)

\* C40: ProofOfWork::verify accepts every proof that CpuMiner::mine returns,
\* for the header hash, difficulty, epoch and cache of the call of mine.
C40_MinedProofVerifies ==
    Returned("verify") => lastCall.ret

----------------------------------------------------------------------------
(* The wallet *)

\* the keys the keystore holds at most, and the entries of unlocked
MaxKeys == 2
MaxUnlocked == 2

InitWallet ==
    /\ blocks = Blockchain_new.blocks
    /\ height_index = Blockchain_new.height_index
    /\ tip = Blockchain_new.tip
    /\ height = Blockchain_new.height
    /\ utxos = Blockchain_new.utxos
    /\ block_times = Blockchain_new.block_times
    /\ current_difficulty = Blockchain_new.current_difficulty
    /\ lastResult = "none"
    /\ lastCall = NoCall
    /\ ComponentsNew

\* a method of the keystore or of the wallet was called, returned ret and
\* left the keystore ks
KeyCall(fn, args, ret, ks) ==
    /\ keystore' = ks
    /\ lastCall' = [fn |-> fn, args |-> args, ret |-> ret, done |-> TRUE]
    /\ UNCHANGED <<ledger, lastResult, mempool, peer_manager, clock, mining_worker, node>>

\* Keystore::generate_key(password, label): Keypair::generate() draws a
\* secret that the keystore does not hold
GenerateKey ==
    /\ Len(keystore.keys) < MaxKeys
    /\ \E secret \in Secrets, password \in Passwords :
          /\ \A i \in 1..Len(keystore.keys) :
                keystore.keys[i].ciphertext.plaintext # secret
          /\ KeyCall("generate_key", [password |-> password],
                     Keypair_address(Keypair_from_bytes(secret)),
                     Keystore_add_key(keystore, Keypair_from_bytes(secret), password))

\* Keystore::import_key(secret_bytes, password, label)
ImportKey ==
    /\ Len(keystore.keys) < MaxKeys
    /\ \E secret \in Secrets, password \in Passwords :
          KeyCall("import_key", [secret |-> secret, password |-> password],
                  Keypair_address(Keypair_from_bytes(secret)),
                  Keystore_add_key(keystore, Keypair_from_bytes(secret), password))

\* Keystore::unlock(address, password)
Unlock ==
    /\ Len(keystore.unlocked) < MaxUnlocked
    /\ \E address \in Miners, password \in Passwords :
          KeyCall("unlock", [address |-> address, password |-> password],
                  Keystore_unlock_result(keystore, address, password),
                  Keystore_unlock(keystore, address, password))

\* Keystore::lock_all()
LockAll ==
    KeyCall("lock_all", <<>>, <<>>, Keystore_lock_all(keystore))

\* Keystore::is_unlocked(address)
IsUnlocked ==
    \E address \in Miners :
       KeyCall("is_unlocked", [address |-> address],
               Keystore_is_unlocked(keystore, address), keystore)

\* Wallet::create_transaction(from, to, amount, chain)
CreateTransaction ==
    \E from \in Miners :
       KeyCall("create_transaction", [from |-> from],
               Wallet_create_transaction(keystore, from), keystore)

NextWallet ==
    \/ GenerateKey
    \/ ImportKey
    \/ Unlock
    \/ LockAll
    \/ IsUnlocked
    \/ CreateTransaction

SpecWallet == InitWallet /\ [][NextWallet]_vars

\* C31: an address becomes unlocked only by an unlock of that address that
\* returns Ok, with a password under which a key of that address was stored;
\* an unlock that fails leaves the unlocked keys as they were; after
\* lock_all no address is unlocked; is_unlocked reports and
\* create_transaction goes on to sign only for an address that is unlocked.
C31_UnlockedByPasswordOnly ==
    [][/\ \A a \in Miners :
             Keystore_is_unlocked(keystore', a) /\ ~Keystore_is_unlocked(keystore, a) =>
                /\ lastCall'.fn = "unlock"
                /\ lastCall'.args.address = a
                /\ lastCall'.ret = "Ok"
                /\ \E i \in 1..Len(keystore.keys) :
                      /\ keystore.keys[i].address = a
                      /\ keystore.keys[i].ciphertext.sealed_with = lastCall'.args.password
       /\ lastCall'.fn = "unlock" /\ lastCall'.ret # "Ok" =>
             keystore'.unlocked = keystore.unlocked
       /\ lastCall'.fn = "lock_all" =>
             \A a \in Miners : ~Keystore_is_unlocked(keystore', a)
       /\ lastCall'.fn = "is_unlocked" /\ lastCall'.ret =>
             Keystore_is_unlocked(keystore, lastCall'.args.address)
       /\ lastCall'.fn = "create_transaction" /\ lastCall'.ret.err = "none" =>
             Keystore_is_unlocked(keystore, lastCall'.args.from)
      ]_vars

\* create_transaction went on to sign for an address of a keystore that
\* holds two keys under two passwords, one of them still locked
C31_Witness ==
    /\ lastCall.fn = "create_transaction"
    /\ lastCall.ret.err = "none"
    /\ Len(keystore.keys) = 2
    /\ keystore.keys[1].ciphertext.sealed_with # keystore.keys[2].ciphertext.sealed_with
    /\ \E a \in Miners : ~Keystore_is_unlocked(keystore, a)

====
